---- MODULE Spec2Model ----
(***************************************************************************)
(* ReflectionAdapter of the DocumentPropertyEditor: a reflected object     *)
(* (one non-primitive member, one sequence container, one associative      *)
(* container) is projected into a DOM, and the messages of the view are    *)
(* handled by ReflectionAdapter::HandleMessage.                            *)
(*                                                                         *)
(* Every handler is one action.  The outbound calls a handler makes        *)
(* (callback, container API, ChangeNotify, NotifyContentsChanged,          *)
(* NotifyResetDocument, property-change event) are logged, in the order    *)
(* the code makes them, in the variable trace.                             *)
(*                                                                         *)
(* ApplySimplePointLight of SimplePointLight.azsli is modelled beside it,  *)
(* on the variable lightingData, which no handler of the adapter touches.  *)
(***************************************************************************)
EXTENDS Integers, Sequences, FiniteSets, TLC

\* ---------------------------------------------------------------- bounds
MaxVal == 1
SeqCapacity == 2
MaxKey == 1

\* the values of a primitive container element, the keys of the map
Vals == 0..MaxVal
Keys == 0..MaxKey
\* the non-primitive member: two members, each holding one of two values
Fields == {"x", "y"}
FieldVals == {0, 1}

VARIABLES
    m_instance,            \* ReflectionAdapter::m_instance ("nullptr" or "root")
    m_typeId,              \* ReflectionAdapter::m_typeId
    obj,                   \* live memory: the non-primitive member
    seq,                   \* live memory: the sequence container (fixed capacity)
    map,                   \* live memory: the associative container
    overrideEnabled,       \* cvar ed_enableInspectorOverrideManagement
    objSerializedPath,     \* the member's SerializedPath attribute: "absent", or the
                           \* path it holds, which may be empty
    contents,              \* the DOM returned by GetContents()
    m_onChangedCallbacks,  \* DomPrefixTree: editor path -> onChanged callback
    m_containers,          \* DomPrefixTree: row path -> ContainerEntry
    keyQuery,              \* the QueryKey message the view has not answered yet
    lastMsg,               \* the operation handled last
    trace,                 \* outbound calls of the operation handled last, in order
    fault,                 \* what ended the program: a fatal assertion or a null
                           \* dereference ("none" while it runs)
    lightingData           \* the shader's LightingData: diffuseLighting, specularLighting

vars == <<m_instance, m_typeId, obj, seq, map, overrideEnabled, objSerializedPath,
          contents, m_onChangedCallbacks, m_containers, keyQuery, lastMsg,
          trace, fault, lightingData>>

\* ------------------------------------------------------------ DOM values
NullValue == [t |-> "null", v |-> 0]
IntValue(n) == [t |-> "int", v |-> n]
StringValue == [t |-> "string", v |-> 0]
\* a JSON object: a function from a subset of the fields to values
JsonValue(f) == [t |-> "json", v |-> f]
\* an opaque value holding an object of the member's type by value
OpaqueValue(o) == [t |-> "opaque", v |-> o]
\* MarshalTypedPointerToValue: an opaque pointer to a live instance
PointerValue(a) == [t |-> "pointer", v |-> a]

Objects == [Fields -> FieldVals]
PartialObjects == UNION {[D -> FieldVals] : D \in SUBSET Fields}

\* the values an editor of the view may send with OnChanged
EditorValues ==
    {IntValue(n) : n \in Vals} \cup {StringValue}
        \cup {JsonValue(f) : f \in PartialObjects}
        \cup {OpaqueValue(o) : o \in Objects}

ChangeTypes == {"InProgressEdit", "FinishedEdit"}
RefreshLevels == {"Undefined", "None", "ValuesOnly", "AttributesAndValues", "EntireTree"}

\* ------------------------------------------------------ JSON serialization
DefaultObject == [f \in Fields |-> 0]

\* JsonSerialization::Store(object, defaultObject): the members that differ
\* from the default object, all of them when m_keepDefaults is set
JsonStore(object, reference, keepDefaults) ==
    LET D == IF keepDefaults THEN Fields
             ELSE {f \in Fields : object[f] # reference[f]}
    IN  [f \in D |-> object[f]]

\* JsonSerialization::Load(instance, buffer): the members (of an object) or
\* elements (of a container) the buffer holds are written, the others are kept
JsonLoad(instance, buffer) ==
    [f \in DOMAIN instance |-> IF f \in DOMAIN buffer THEN buffer[f] ELSE instance[f]]

\* Dom::Utils::TryMarshalValueToPointer: only an opaque value of the type
CanMarshal(value) == value.t = "opaque"

\* ------------------------------------------------------- IDataContainer
NoReserved == [has |-> FALSE, k |-> 0, v |-> 0]
\* ReserveElement: a default-constructed element that is not stored yet
ReserveElement == [has |-> TRUE, k |-> 0, v |-> 0]

SeqStoreElement(s, e) == Append(s, e.v)
SeqRemoveElement(s, i) == [j \in 1..(Len(s) - 1) |-> IF j < i THEN s[j] ELSE s[j + 1]]
SeqSwapElements(s, i, j) ==
    [n \in 1..Len(s) |-> IF n = i THEN s[j] ELSE IF n = j THEN s[i] ELSE s[n]]

MapStoreElement(m, e) == IF e.k \in DOMAIN m THEN m ELSE (e.k :> e.v) @@ m
MapRemoveElement(m, k) == [j \in DOMAIN m \ {k} |-> m[j]]
EmptyMap == [k \in {} |-> 0]

\* the j-th key of the map in iteration order (j from 1)
KeyAt(m, j) == CHOOSE k \in DOMAIN m : Cardinality({h \in DOMAIN m : h < k}) = j - 1

\* ------------------------------------------------------------- DOM nodes
Node(name, value, action, index, disabled, ancestorDisabled, spath) ==
    [name |-> name, value |-> value, action |-> action, index |-> index,
     disabled |-> disabled, ancestorDisabled |-> ancestorDisabled, spath |-> spath]

RowNode == Node("Row", NullValue, "", -1, FALSE, FALSE, FALSE)
LabelNode == Node("Label", NullValue, "", -1, FALSE, FALSE, FALSE)

\* VisitValue: BeginPropertyEditor(value), ForwardAttributes: the editor carries
\* the attributes of the value (SerializedPath, Disabled, AncestorDisabled)
EditorNode(value, spath, disabled, ancestorDisabled) ==
    Node("PropertyEditor", value, "", -1, disabled, ancestorDisabled, spath)

\* CreateContainerButton: ContainerIndex is set only when it is not -1
CreateContainerButton(action, disabled, ancestorDisabled, containerIndex) ==
    Node("ContainerActionButton", NullValue, action, containerIndex, disabled,
         ancestorDisabled, FALSE)

\* an attribute that is "absent", or holds "true", "false" or a non-boolean
AttrValues == {"absent", "true", "false", "nonbool"}

\* buttons of a container's row whose Clear is disabled as AddElement is
ContainerButtonsClearAsAdd(canBeModifiedAttr, isFixedSize, disabledAttr, size) ==
    LET canBeModified == IF canBeModifiedAttr = "absent" THEN TRUE
                         ELSE canBeModifiedAttr = "true"
        isDisabled == IF disabledAttr = "absent" THEN FALSE ELSE disabledAttr = "true"
    IN  IF canBeModified /\ ~isFixedSize
        THEN <<CreateContainerButton("AddElement", isDisabled, FALSE, -1),
               CreateContainerButton("Clear", isDisabled, FALSE, -1)>>
        ELSE <<>>

\* VisitObjectBegin, the buttons of a container's row
ContainerButtons(canBeModifiedAttr, isFixedSize, disabledAttr, size) ==
    LET canBeModified == IF canBeModifiedAttr = "absent" THEN TRUE
                         ELSE canBeModifiedAttr = "true"
        isDisabled == IF disabledAttr = "absent" THEN FALSE ELSE disabledAttr = "true"
    IN  IF canBeModified /\ ~isFixedSize
        THEN <<CreateContainerButton("AddElement", isDisabled, FALSE, -1),
               CreateContainerButton("Clear", (isDisabled \/ size = 0), FALSE, -1)>>
        ELSE <<>>

\* buttons of an element's row whose MoveDown is never the last one's
CheckContainerElementNoLast(isFixedSize, parentCanBeModifiedAttr, ancestorDisabledAttr, hasParentInstance, containerSize, isSequence, containerIndex) ==
    LET parentCanBeModified == IF parentCanBeModifiedAttr = "absent" THEN TRUE
                               ELSE parentCanBeModifiedAttr = "true"
        isAncestorDisabled == ancestorDisabledAttr = "true"
        move == IF hasParentInstance /\ containerSize > 1 /\ isSequence
                THEN <<CreateContainerButton("MoveUp", (containerIndex = 0),
                                             isAncestorDisabled, containerIndex),
                       CreateContainerButton("MoveDown", (containerIndex = containerSize),
                                             isAncestorDisabled, containerIndex)>>
                ELSE <<>>
    IN  IF ~isFixedSize /\ parentCanBeModified
        THEN move \o <<CreateContainerButton("RemoveElement", FALSE, isAncestorDisabled, -1)>>
        ELSE <<>>

\* CheckContainerElement, the buttons of a container element's row;
\* containerIndex counts from 0
CheckContainerElement(isFixedSize, parentCanBeModifiedAttr, ancestorDisabledAttr, hasParentInstance, containerSize, isSequence, containerIndex) ==
    LET parentCanBeModified == IF parentCanBeModifiedAttr = "absent" THEN TRUE
                               ELSE parentCanBeModifiedAttr = "true"
        isAncestorDisabled == ancestorDisabledAttr = "true"
        move == IF hasParentInstance /\ containerSize > 1 /\ isSequence
                THEN <<CreateContainerButton("MoveUp", (containerIndex = 0),
                                             isAncestorDisabled, containerIndex),
                       CreateContainerButton("MoveDown", (containerIndex = containerSize - 1),
                                             isAncestorDisabled, containerIndex)>>
                ELSE <<>>
    IN  IF ~isFixedSize /\ parentCanBeModified
        THEN move \o <<CreateContainerButton("RemoveElement", FALSE, isAncestorDisabled, -1)>>
        ELSE <<>>

\* the children of the node at base, in order: base/0, base/1, ...
Place(base, nodes) ==
    [p \in {base \o <<k - 1>> : k \in 1..Len(nodes)} |-> nodes[p[Len(p)] + 1]]

\* ExtractSerializedPath (lines 338-349): the path the attribute holds, the
\* empty one when there is no such attribute
ExtractSerializedPath(attribute) == IF attribute = "absent" THEN "" ELSE attribute

\* VisitObjectBegin line 939: which write-back callback an object gets
ObjectCallbackKind(cvar, attribute) ==
    IF cvar /\ ExtractSerializedPath(attribute) # "" THEN "serialized" ELSE "pointer"

\* the Value of an object's PropertyEditor: the serialized instance
\* (VisitValueWithSerializedPath, defaults dropped) or the marshalled pointer
ObjectEditorValue(cvar, attribute, instance, address) ==
    IF ObjectCallbackKind(cvar, attribute) = "serialized"
    THEN JsonValue(JsonStore(instance, DefaultObject, FALSE))
    ELSE PointerValue(address)

\* the Value of a container's PropertyEditor: the serialized container, a JSON
\* array of its elements, or the marshalled pointer; the path of a container
\* member is not empty, its address stands for it
ContainerEditorValue(cvar, container, address) ==
    IF ObjectCallbackKind(cvar, address) = "serialized"
    THEN [t |-> "array", v |-> container] ELSE PointerValue(address)

\* the rows of the document
ObjRow == <<0>>
SeqRow == <<1>>
MapRow == <<2>>

\* the leaf children of a container's row (labels, buttons, editor)
ContainerLeaves(cvar, container, address, size) ==
    <<LabelNode, LabelNode>>
        \o ContainerButtons("absent", FALSE, "absent", size)
        \o <<EditorNode(ContainerEditorValue(cvar, container, address), TRUE, FALSE, FALSE)>>

\* the leaf children of the row of a primitive container element (VisitPrimitive)
ElementLeaves(value, size, isSequence, containerIndex) ==
    <<LabelNode, EditorNode(IntValue(value), FALSE, FALSE, FALSE)>>
        \o CheckContainerElement(FALSE, "absent", "absent", TRUE, size, isSequence,
                                 containerIndex)

\* the number of leaf children of a container's row
LeafCount == Len(ContainerLeaves(FALSE, <<>>, "", 1))

\* the row of element i (from 1) of a container: after the container's leaves
ElementRow(base, i) == base \o <<LeafCount + i - 1>>

\* the element (from 1) whose row, or a node of whose row, is p
ElementOf(base, p) == p[Len(base) + 1] - LeafCount + 1

SeqContents(cvar, s) ==
    LET rows == [i \in 1..Len(s) |->
                    (ElementRow(SeqRow, i) :> RowNode)
                        @@ Place(ElementRow(SeqRow, i),
                                 ElementLeaves(s[i], Len(s), TRUE, i - 1))]
        merge[i \in 0..Len(s)] == IF i = 0 THEN <<>> ELSE rows[i] @@ merge[i - 1]
    IN  (SeqRow :> RowNode)
            @@ Place(SeqRow, ContainerLeaves(cvar, s, "seq", Len(s)))
            @@ merge[Len(s)]

MapContents(cvar, m) ==
    LET n == Cardinality(DOMAIN m)
        rows == [i \in 1..n |->
                    (ElementRow(MapRow, i) :> RowNode)
                        @@ Place(ElementRow(MapRow, i),
                                 ElementLeaves(m[KeyAt(m, i)], n, FALSE, i - 1))]
        merge[i \in 0..n] == IF i = 0 THEN <<>> ELSE rows[i] @@ merge[i - 1]
    IN  (MapRow :> RowNode)
            @@ Place(MapRow, ContainerLeaves(cvar, m, "map", n))
            @@ merge[n]

\* the row of the non-primitive member; ForwardAttributes gives the editor
\* the SerializedPath member whenever the attribute is there
ObjContents(cvar, attribute, o) ==
    (ObjRow :> RowNode)
        @@ Place(ObjRow, <<LabelNode,
                           EditorNode(ObjectEditorValue(cvar, attribute, o, "obj"),
                                      attribute # "absent", FALSE, FALSE)>>)

AdapterNode == Node("Adapter", NullValue, "", -1, FALSE, FALSE, FALSE)

Visited(inst, type) == inst # "nullptr" /\ type = "Root"

\* GenerateContents: the DOM
GenContents(inst, type, cvar, attribute, o, s, m) ==
    (<<>> :> AdapterNode)
        @@ (IF Visited(inst, type)
            THEN ObjContents(cvar, attribute, o) @@ SeqContents(cvar, s) @@ MapContents(cvar, m)
            ELSE <<>>)

\* ---------------------------------------------------- the lookup tables
\* an onChanged callback: its kind and the live value it captured
Callback(kind, c, e) == [kind |-> kind, c |-> c, e |-> e]

\* BoundContainer (lines 35-191): its IDataContainer and m_reservedElementInstance
NoBound == [c |-> "none", reserved |-> NoReserved]
BoundContainer(c) == [c |-> c, reserved |-> NoReserved]

\* ContainerElement (lines 196-305): the parent's IDataContainer and
\* m_elementInstance (the index of the element, the key of the pair)
NoElement == [c |-> "none", e |-> 0]
ContainerElement(c, e) == [c |-> c, e |-> e]

ContainerEntry(container, element) == [m_container |-> container, m_element |-> element]

\* VisitValue line 411: m_onChangedCallbacks.SetValue(editor path, onChanged)
EditorOf(row) == row \o <<1>>
ContainerEditorOf(row) == row \o <<LeafCount - 1>>

GenCallbacks(inst, type, cvar, attribute, s, m) ==
    IF ~Visited(inst, type) THEN <<>>
    ELSE (EditorOf(ObjRow) :> Callback(ObjectCallbackKind(cvar, attribute), "obj", 0))
          @@ (ContainerEditorOf(SeqRow) :> Callback(ObjectCallbackKind(cvar, "seq"), "seqAll", 0))
          @@ (ContainerEditorOf(MapRow) :> Callback(ObjectCallbackKind(cvar, "map"), "mapAll", 0))
          @@ [p \in {EditorOf(ElementRow(SeqRow, i)) : i \in 1..Len(s)} |->
                Callback("primitive", "seq", ElementOf(SeqRow, p))]
          @@ [p \in {EditorOf(ElementRow(MapRow, i)) : i \in 1..Cardinality(DOMAIN m)} |->
                Callback("primitive", "map", KeyAt(m, ElementOf(MapRow, p)))]

\* VisitObjectBegin line 872 and CheckContainerElement lines 681-691
GenContainers(inst, type, s, m) ==
    IF ~Visited(inst, type) THEN <<>>
    ELSE (SeqRow :> ContainerEntry(BoundContainer("seq"), NoElement))
          @@ (MapRow :> ContainerEntry(BoundContainer("map"), NoElement))
          @@ [p \in {ElementRow(SeqRow, i) : i \in 1..Len(s)} |->
                ContainerEntry(NoBound, ContainerElement("seq", ElementOf(SeqRow, p)))]
          @@ [p \in {ElementRow(MapRow, i) : i \in 1..Cardinality(DOMAIN m)} |->
                ContainerEntry(NoBound, ContainerElement("map", KeyAt(m, ElementOf(MapRow, p))))]

\* ------------------------------------------------------ DomPrefixTree
IsPrefix(p, q) == Len(p) <= Len(q) /\ SubSeq(q, 1, Len(p)) = p

\* the entries ValueAtPath(path, ParentsOnly) can match: strict parents of path
ParentPaths(tree, path) == {p \in DOMAIN tree : IsPrefix(p, path) /\ Len(p) < Len(path)}

HasParentEntry(tree, path) == ParentPaths(tree, path) # {}

\* ValueAtPath(path, PrefixTreeMatch::ParentsOnly): the most specific parent
ParentPathOf(tree, path) ==
    CHOOSE p \in ParentPaths(tree, path) : \A q \in ParentPaths(tree, path) : Len(q) <= Len(p)

\* ------------------------------------------------------------- callbacks
\* how the JSON serialization steps of a write-back end
Outcomes == {"ok", "storeHalted", "loadHalted"}

Restrict(f, D) == [x \in DOMAIN f \cap D |-> f[x]]

\* the AZ_Error a halted step reports (lines 478-508, 977-1007)
StoreError == "Storing new property editor value to JSON for copying to instance has failed"
LoadError == "Loading JSON value containing new property editor into instance has failed"
LoadDomError == "Loading new DOMValue directly into instance has failed"

Written(instance, error) == [instance |-> instance, error |-> error]

\* a write-back that goes on to Load the buffer after the Store has halted
WriteInstanceAfterHaltedStore(instance, newValue, outcome, applied) ==
    IF CanMarshal(newValue)
    THEN LET buffer == JsonStore(newValue.v, instance, FALSE)
         IN  IF outcome = "storeHalted" THEN Written(JsonLoad(instance, buffer), StoreError)
             ELSE IF outcome = "loadHalted"
             THEN Written(JsonLoad(instance, Restrict(buffer, applied)), LoadError)
             ELSE Written(JsonLoad(instance, buffer), "")
    ELSE IF outcome = "loadHalted"
    THEN Written(JsonLoad(instance, Restrict(newValue.v, applied)), LoadDomError)
    ELSE Written(JsonLoad(instance, newValue.v), "")

\* lines 959-1010 (and 460-511): the new value is written into the instance.
\* A Load that halts has written the members in applied.
WriteInstance(instance, newValue, outcome, applied) ==
    IF CanMarshal(newValue)
    THEN LET buffer == JsonStore(newValue.v, instance, FALSE)
         IN  IF outcome = "storeHalted" THEN Written(instance, StoreError)
             ELSE IF outcome = "loadHalted"
             THEN Written(JsonLoad(instance, Restrict(buffer, applied)), LoadError)
             ELSE Written(JsonLoad(instance, buffer), "")
    ELSE IF outcome = "loadHalted"
    THEN Written(JsonLoad(instance, Restrict(newValue.v, applied)), LoadDomError)
    ELSE Written(JsonLoad(instance, newValue.v), "")

\* StoreValueIntoPointer (lines 956-1022): returns newValue in every case
StoreValueIntoPointer(instance, newValue, outcome, applied) ==
    LET w == WriteInstance(instance, newValue, outcome, applied)
    IN  [ret |-> newValue, instance |-> w.instance, error |-> w.error]

\* a callback that hands the editor's value back after writing the instance
SerializedPathCallbackEcho(instance, newValue, outcome, applied) ==
    LET w == WriteInstance(instance, newValue, outcome, applied)
    IN  [ret |-> newValue, instance |-> w.instance, error |-> w.error]

\* the callback of VisitValueWithSerializedPath (lines 458-519): returns the
\* complete serialization of the instance unless a step halted
SerializedPathCallback(instance, newValue, outcome, applied) ==
    LET w == WriteInstance(instance, newValue, outcome, applied)
    IN  [ret |-> IF w.error # "" THEN newValue
                 ELSE JsonValue(JsonStore(w.instance, DefaultObject, TRUE)),
         instance |-> w.instance, error |-> w.error]

\* a callback that hands the editor's value back, converted or not
PrimitiveCallbackEcho(value, newValue) ==
    LET has_value == newValue.t = "int"
        written == IF has_value THEN newValue.v ELSE value
    IN  [ret |-> newValue, instance |-> written, error |-> ""]

\* the callback of VisitPrimitive (lines 553-562)
PrimitiveCallback(value, newValue) ==
    LET has_value == newValue.t = "int"
        written == IF has_value THEN newValue.v ELSE value
    IN  [ret |-> IntValue(written), instance |-> written, error |-> ""]

\* the write-back callback of a container's editor.  The callback captured
\* the container.  A JSON array is loaded into it element by element (line
\* 501, lines 1003-1005); a halted Load has written the elements in applied.
\* A marshalled pointer is stored against the container itself (lines 468-476,
\* 966-974): the pointer the editor holds is the container, and a value of the
\* object's type has no element of it, so the buffer holds nothing to load.
\* The callback of VisitValueWithSerializedPath returns the serialization of
\* the container after the write unless a step halted (lines 513-518);
\* StoreValueIntoPointer returns newValue.
ContainerCallback(kind, container, address, newValue, outcome, applied) ==
    LET marshalled == CanMarshal(newValue) \/ newValue.t = "pointer"
        buffer == IF newValue.t = "array" THEN newValue.v ELSE <<>>
        error == IF outcome = "storeHalted" /\ marshalled THEN StoreError
                 ELSE IF outcome = "loadHalted"
                 THEN (IF marshalled THEN LoadError ELSE LoadDomError)
                 ELSE ""
        written == IF error = StoreError THEN container
                   ELSE IF outcome = "loadHalted"
                   THEN JsonLoad(container, Restrict(buffer, applied))
                   ELSE JsonLoad(container, buffer)
    IN  [ret |-> IF kind = "serialized" /\ error = ""
                 THEN ContainerEditorValue(TRUE, written, address) ELSE newValue,
         instance |-> written, error |-> error]

\* (*changeHandler)(valueFromEditor): the returned value and the live memory after it
InvokeCallback(cb, o, s, m, newValue, outcome, applied) ==
    IF cb.kind = "primitive"
    THEN LET r == PrimitiveCallback(IF cb.c = "seq" THEN s[cb.e] ELSE m[cb.e], newValue)
         IN  [ret |-> r.ret, error |-> r.error, obj |-> o,
              seq |-> IF cb.c = "seq" THEN [s EXCEPT ![cb.e] = r.instance] ELSE s,
              map |-> IF cb.c = "map" THEN [m EXCEPT ![cb.e] = r.instance] ELSE m]
    ELSE IF cb.c = "obj"
    THEN LET r == IF cb.kind = "serialized"
                  THEN SerializedPathCallback(o, newValue, outcome, applied)
                  ELSE StoreValueIntoPointer(o, newValue, outcome, applied)
         IN  [ret |-> r.ret, error |-> r.error, obj |-> r.instance, seq |-> s, map |-> m]
    ELSE LET address == IF cb.c = "seqAll" THEN "seq" ELSE "map"
             r == ContainerCallback(cb.kind, IF address = "seq" THEN s ELSE m, address,
                                    newValue, outcome, applied)
         IN  [ret |-> r.ret, error |-> r.error, obj |-> o,
              seq |-> IF address = "seq" THEN r.instance ELSE s,
              map |-> IF address = "map" THEN r.instance ELSE m]

\* ---------------------------------------------------------------- events
Ev(op, path, attr, val, ret, aux) ==
    [op |-> op, path |-> path, attr |-> attr, val |-> val, ret |-> ret, aux |-> aux]

Msg(type, origin, value, aux) == [type |-> type, origin |-> origin, value |-> value, aux |-> aux]

NoQuery == [pending |-> FALSE, path |-> <<>>]

\* NotifyResetDocument(resetType), as an outbound call
ResetEvent(resetType) == Ev("NotifyResetDocument", <<>>, "", NullValue, NullValue, resetType)

\* UpdateDomContents (lines 1147-1150): one Replace operation at path/"Value"
UpdateDomContents(path, newValue) ==
    Ev("NotifyContentsChanged", path, "Value", newValue, NullValue, "Replace")

\* NotifyPropertyChanged (lines 1136-1139): the property-change event
NotifyPropertyChanged(path, newValue, changeType) ==
    Ev("PropertyChangeEvent", path, "", newValue, NullValue, changeType)

\* a handler that patches the DOM with the value the editor sent
PropertyEditorChangedCallsEditorValue(origin, valueFromEditor, changeType, ret, error) ==
    <<Ev("onChanged", origin, "", valueFromEditor, ret, error),
      UpdateDomContents(origin, valueFromEditor),
      NotifyPropertyChanged(origin, ret, changeType)>>

\* handlePropertyEditorChanged (lines 1177-1186): the calls made when a
\* callback is registered, the callback returning ret (and reporting error)
PropertyEditorChangedCalls(origin, valueFromEditor, changeType, ret, error) ==
    <<Ev("onChanged", origin, "", valueFromEditor, ret, error),
      UpdateDomContents(origin, ret),
      NotifyPropertyChanged(origin, ret, changeType)>>

\* DocumentAdapter::NotifyContentsChanged: the patch is applied to the DOM
ApplyReplace(dom, path, newValue) ==
    IF path \in DOMAIN dom THEN [dom EXCEPT ![path].value = newValue] ELSE dom

\* ------------------------------------------------- container operations
IsFixedCapacity(c) == c = "seq"
Capacity(c) == SeqCapacity
IsAssociative(c) == c = "map"
\* the element of the associative container declares a KeyType attribute
HasKeyType(c) == c = "map"
Size(c, s, m) == IF c = "seq" THEN Len(s) ELSE Cardinality(DOMAIN m)

\* IDataContainer calls on the live containers: the containers after the call
StoreElement(c, s, m, e) ==
    [seq |-> IF c = "seq" THEN SeqStoreElement(s, e) ELSE s,
     map |-> IF c = "map" THEN MapStoreElement(m, e) ELSE m]
RemoveElement(c, s, m, e) ==
    [seq |-> IF c = "seq" THEN SeqRemoveElement(s, e) ELSE s,
     map |-> IF c = "map" THEN MapRemoveElement(m, e) ELSE m]
ClearElements(c, s, m) ==
    [seq |-> IF c = "seq" THEN <<>> ELSE s,
     map |-> IF c = "map" THEN EmptyMap ELSE m]
\* indices from 0, as the code passes them
SwapElements(c, s, m, i, j) ==
    [seq |-> IF c = "seq" /\ {i, j} \subseteq 0..(Len(s) - 1)
             THEN SeqSwapElements(s, i + 1, j + 1) ELSE s,
     map |-> m]

Call(op, c, a, b) == Ev(op, <<>>, "", a, b, c)

NullNode == <<-1>>

\* GetContainerNode (lines 67-102, 249-284): the PropertyEditor with a
\* SerializedPath in the row of the nearest entry bound to IDataContainer c
GetContainerNode(dom, tree, path, c) ==
    LET rows == {p \in DOMAIN tree : IsPrefix(p, path) /\ tree[p].m_container.c = c}
    IN  IF rows = {} THEN NullNode
        ELSE LET row == CHOOSE p \in rows : \A q \in rows : Len(q) <= Len(p)
                 eds == {q \in DOMAIN dom : /\ Len(q) = Len(row) + 1
                                            /\ IsPrefix(row, q)
                                            /\ dom[q].name = "PropertyEditor"
                                            /\ dom[q].spath}
             IN  IF eds = {} THEN NullNode
                 ELSE CHOOSE q \in eds : \A r \in eds : q[Len(q)] <= r[Len(r)]

\* Nodes::PropertyEditor::ChangeNotify.InvokeOnDomNode(containerNode)
ChangeNotify(node) == Ev("ChangeNotify", node, "", NullValue, NullValue, "")

\* what a container operation did: the live containers, the BoundContainer of
\* the entry, the calls made, whether the document was reset, whether a key
\* was queried
Result(s, m, bound, calls, reset, query) ==
    [seq |-> s, map |-> m, bound |-> bound, calls |-> calls, reset |-> reset, query |-> query]

\* the two notifications that end a completed mutation
NotifyMutation(dom, tree, path, c) ==
    <<ChangeNotify(GetContainerNode(dom, tree, path, c)), ResetEvent("SoftReset")>>

\* BoundContainer::OnClear (lines 104-111)
OnClear(b, s, m, dom, tree, path) ==
    LET after == ClearElements(b.c, s, m)
    IN  Result(after.seq, after.map, b,
               <<Call("ClearElements", b.c, NullValue, NullValue)>>
                   \o NotifyMutation(dom, tree, path, b.c),
               TRUE, FALSE)

\* BoundContainer::OnAddElement (lines 113-153)
OnAddElement(b, s, m, dom, tree, path) ==
    IF IsFixedCapacity(b.c) /\ Size(b.c, s, m) >= Capacity(b.c)
    THEN Result(s, m, b, <<>>, FALSE, FALSE)
    ELSE IF IsAssociative(b.c) /\ HasKeyType(b.c)
    THEN Result(s, m, [b EXCEPT !.reserved = ReserveElement],
                <<Call("ReserveElement", b.c, NullValue, NullValue),
                  Ev("QueryKey", path, "", NullValue, NullValue, b.c)>>,
                FALSE, TRUE)
    ELSE LET after == StoreElement(b.c, s, m, ReserveElement)
         IN  Result(after.seq, after.map, [b EXCEPT !.reserved = NoReserved],
                    <<Call("ReserveElement", b.c, NullValue, NullValue),
                      Call("StoreElement", b.c, NullValue, NullValue)>>
                        \o NotifyMutation(dom, tree, path, b.c),
                    TRUE, FALSE)

\* ContainerElement::OnRemoveElement (lines 286-292)
OnRemoveElement(el, s, m, dom, tree, path) ==
    LET after == RemoveElement(el.c, s, m, el.e)
    IN  Result(after.seq, after.map, NoBound,
               <<Call("RemoveElement", el.c, IntValue(el.e), NullValue)>>
                   \o NotifyMutation(dom, tree, path, el.c),
               TRUE, FALSE)

\* a move that swaps in the direction opposite to the button's
OnMoveElementBackward(el, s, m, dom, tree, path, containerIndex, moveForward) ==
    LET other == IF moveForward THEN containerIndex - 1 ELSE containerIndex + 1
        after == SwapElements(el.c, s, m, containerIndex, other)
    IN  Result(after.seq, after.map, NoBound,
               <<Call("SwapElements", el.c, IntValue(containerIndex), IntValue(other))>>
                   \o NotifyMutation(dom, tree, path, el.c),
               TRUE, FALSE)

\* ContainerElement::OnMoveElement (lines 294-300)
OnMoveElement(el, s, m, dom, tree, path, containerIndex, moveForward) ==
    LET other == IF moveForward THEN containerIndex + 1 ELSE containerIndex - 1
        after == SwapElements(el.c, s, m, containerIndex, other)
    IN  Result(after.seq, after.map, NoBound,
               <<Call("SwapElements", el.c, IntValue(containerIndex), IntValue(other))>>
                   \o NotifyMutation(dom, tree, path, el.c),
               TRUE, FALSE)

\* handleContainerOperation (lines 1331-1379)
handleContainerOperation(origin, s, m, dom, tree) ==
    IF Len(origin) = 0 \/ ~HasParentEntry(tree, origin)
    THEN Result(s, m, NoBound, <<>>, FALSE, FALSE)
    ELSE LET containerEntry == tree[ParentPathOf(tree, origin)]
             action == IF origin \in DOMAIN dom THEN dom[origin].action ELSE ""
             nothing == Result(s, m, containerEntry.m_container, <<>>, FALSE, FALSE)
         IN  CASE action = "AddElement" ->
                    IF containerEntry.m_container.c # "none"
                    THEN OnAddElement(containerEntry.m_container, s, m, dom, tree, origin)
                    ELSE nothing
               [] action = "RemoveElement" ->
                    IF containerEntry.m_element.c # "none"
                    THEN OnRemoveElement(containerEntry.m_element, s, m, dom, tree, origin)
                    ELSE nothing
               [] action = "Clear" ->
                    IF containerEntry.m_container.c # "none"
                    THEN OnClear(containerEntry.m_container, s, m, dom, tree, origin)
                    ELSE nothing
               [] action \in {"MoveUp", "MoveDown"} ->
                    IF containerEntry.m_element.c # "none"
                    THEN OnMoveElement(containerEntry.m_element, s, m, dom, tree, origin,
                                       dom[origin].index, action = "MoveDown")
                    ELSE nothing
               [] OTHER -> nothing

\* a failed AZ_Assert, as the call to the trace system it is
AssertFailed(message) == Ev("AZ_Assert", <<>>, "", NullValue, NullValue, message)

\* BoundContainer::OnAddElementToAssociativeContainer (lines 155-177); key is
\* the key held by the instance of the adapter the view sends back.  Without a
\* reserved element the assertion fails and, where that is not fatal, nullptr
\* is passed on as the element: nothing is stored
OnAddElementToAssociativeContainer(b, s, m, dom, tree, containerPath, key) ==
    LET element == [b.reserved EXCEPT !.k = key]
        after == IF b.reserved.has THEN StoreElement(b.c, s, m, element)
                 ELSE [seq |-> s, map |-> m]
    IN  Result(after.seq, after.map, [b EXCEPT !.reserved = NoReserved],
               (IF b.reserved.has THEN <<>>
                ELSE <<AssertFailed("This BoundContainer has no reserved element to store")>>)
                   \o (IF IsAssociative(b.c)
                       THEN <<Call("SetElementKey", b.c, IntValue(key), NullValue)>>
                       ELSE <<>>)
                   \o <<IF b.reserved.has
                        THEN Call("StoreElement", b.c, IntValue(element.k), IntValue(element.v))
                        ELSE Call("StoreElement", b.c, PointerValue("nullptr"), NullValue)>>
                   \o NotifyMutation(dom, tree, containerPath, b.c),
               TRUE, FALSE)

\* a rejection that also resets the document
RejectAssociativeContainerKeyWithReset(b, s, m) ==
    Result(s, m, [b EXCEPT !.reserved = NoReserved],
           <<Call("FreeReservedElement", b.c, NullValue, NullValue), ResetEvent("SoftReset")>>,
           TRUE, FALSE)

\* BoundContainer::RejectAssociativeContainerKey (lines 179-184); without a
\* reserved element the assertion fails and, where that is not fatal, nullptr
\* is what is freed
RejectAssociativeContainerKey(b, s, m) ==
    Result(s, m, [b EXCEPT !.reserved = NoReserved],
           (IF b.reserved.has THEN <<>>
            ELSE <<AssertFailed("This BoundContainer has no reserved element to free")>>)
               \o <<Call("FreeReservedElement", b.c,
                        IF b.reserved.has THEN NullValue ELSE PointerValue("nullptr"),
                        NullValue)>>,
           FALSE, FALSE)

\* --------------------------------------------------------------- actions
\* GenerateContents (lines 1158-1173): both lookup tables are cleared and
\* rebuilt with the DOM
GenerateContents(inst, type, o, s, m) ==
    /\ contents' = GenContents(inst, type, overrideEnabled, objSerializedPath, o, s, m)
    /\ m_onChangedCallbacks' = GenCallbacks(inst, type, overrideEnabled, objSerializedPath, s, m)
    /\ m_containers' = GenContainers(inst, type, s, m)

\* DocumentAdapter::NotifyResetDocument: the contents are generated again
NotifyResetDocument(inst, type, o, s, m) == GenerateContents(inst, type, o, s, m)

\* a SetValue that resets the document softly
SetValueCallsSoft == <<ResetEvent("SoftReset")>>

\* the calls of ReflectionAdapter::SetValue (lines 1104-1111)
SetValueCalls == <<ResetEvent("HardReset")>>

\* what SetValue records (lines 1106-1107)
SetValueRecord(instance, typeId) == [m_instance |-> instance, m_typeId |-> typeId]

\* the call SetValue(inst, type) on an adapter that held the instance previous
SetValueMsg(previous, inst, type) ==
    Msg("SetValue", <<>>, [t |-> "SetValue", v |-> [previous |-> previous, typeId |-> type]], inst)

\* ReflectionAdapter::SetValue (lines 1104-1111)
SetValue(inst, type) ==
    /\ fault = "none"
    /\ UNCHANGED lightingData
    /\ m_instance' = SetValueRecord(inst, type).m_instance
    /\ m_typeId' = SetValueRecord(inst, type).m_typeId
    /\ trace' = SetValueCalls
    /\ NotifyResetDocument(m_instance', m_typeId', obj, seq, map)
    /\ lastMsg' = SetValueMsg(m_instance, inst, type)
    /\ UNCHANGED <<obj, seq, map, overrideEnabled, objSerializedPath, keyQuery, fault>>

\* the values the view sends with OnChanged: a number or a string from the
\* editor of a primitive, an object (opaque or JSON) from the editor of the
\* non-primitive member; the editor of a container sends the value it holds
\* (stale once an element was edited), and one value stands for a message
\* from any other path, which no callback receives
ValuesFor(origin) ==
    IF origin \notin DOMAIN m_onChangedCallbacks
    THEN {OpaqueValue(DefaultObject)}
    ELSE IF m_onChangedCallbacks[origin].kind = "primitive"
    THEN {v \in EditorValues : v.t \in {"int", "string"}}
    ELSE IF origin \in {ContainerEditorOf(SeqRow), ContainerEditorOf(MapRow)}
    THEN {contents[origin].value}
    ELSE {v \in EditorValues : v.t \in {"json", "opaque"}}

\* how the serialization steps of the write-back can end for a value
OutcomesFor(origin, value) ==
    IF origin \notin DOMAIN m_onChangedCallbacks \/ m_onChangedCallbacks[origin].kind = "primitive"
    THEN {"ok"}
    ELSE IF CanMarshal(value) \/ value.t = "pointer" THEN Outcomes
    ELSE {"ok", "loadHalted"}

\* the members or elements a halted Load may have written before it stopped
AppliedFor(value, outcome) ==
    IF outcome = "loadHalted" /\ value.t \in {"json", "opaque", "array"} THEN SUBSET (DOMAIN value.v)
    ELSE {{}}

\* HandleMessage, PropertyEditor::OnChanged: handlePropertyEditorChanged
\* (lines 1177-1186)
OnChanged(origin, valueFromEditor, changeType, outcome, applied) ==
    /\ fault = "none"
    /\ UNCHANGED lightingData
    /\ IF origin \in DOMAIN m_onChangedCallbacks
       THEN LET changeHandler == m_onChangedCallbacks[origin]
                r == InvokeCallback(changeHandler, obj, seq, map, valueFromEditor, outcome, applied)
            IN  /\ obj' = r.obj
                /\ seq' = r.seq
                /\ map' = r.map
                /\ trace' = PropertyEditorChangedCalls(origin, valueFromEditor, changeType, r.ret, r.error)
                /\ contents' = ApplyReplace(contents, origin, r.ret)
       ELSE /\ trace' = <<>>
            /\ UNCHANGED <<obj, seq, map, contents>>
    /\ lastMsg' = Msg("OnChanged", origin, valueFromEditor, changeType)
    /\ UNCHANGED <<m_instance, m_typeId, overrideEnabled, objSerializedPath, m_onChangedCallbacks,
                   m_containers, keyQuery, fault>>

\* the state after a container operation with result r on the entry at entryPath
AfterContainerOperation(r, hasEntry, entryPath) ==
    /\ seq' = r.seq
    /\ map' = r.map
    /\ trace' = r.calls
    /\ IF r.reset
       THEN NotifyResetDocument(m_instance, m_typeId, obj, r.seq, r.map)
       ELSE /\ UNCHANGED <<contents, m_onChangedCallbacks>>
            /\ m_containers' = IF hasEntry
                               THEN [m_containers EXCEPT ![entryPath].m_container = r.bound]
                               ELSE m_containers

\* HandleMessage, ContainerActionButton::OnActivate: handleContainerOperation
\* (lines 1331-1379)
OnActivate(origin) ==
    /\ fault = "none"
    /\ UNCHANGED lightingData
    /\ LET r == handleContainerOperation(origin, seq, map, contents, m_containers)
           hasEntry == HasParentEntry(m_containers, origin)
       IN  /\ AfterContainerOperation(r, hasEntry, ParentPathOf(m_containers, origin))
           /\ keyQuery' = IF r.query THEN [pending |-> TRUE, path |-> origin] ELSE keyQuery
    /\ lastMsg' = Msg("OnActivate", origin, NullValue, "")
    /\ UNCHANGED <<m_instance, m_typeId, obj, overrideEnabled, objSerializedPath, fault>>

\* a tree update that resets the document only for the levels that ask for a refresh
handleTreeUpdateByLevel(level) ==
    IF level \in {"Undefined", "None"} THEN <<>> ELSE <<ResetEvent("SoftReset")>>

\* handleTreeUpdate (lines 1399-1404): the calls made for a refresh level
handleTreeUpdate(level) == <<ResetEvent("SoftReset")>>

\* HandleMessage, PropertyEditor::RequestTreeUpdate
RequestTreeUpdate(level) ==
    /\ fault = "none"
    /\ UNCHANGED lightingData
    /\ trace' = handleTreeUpdate(level)
    /\ IF \E i \in 1..Len(trace') : trace'[i].op = "NotifyResetDocument"
       THEN NotifyResetDocument(m_instance, m_typeId, obj, seq, map)
       ELSE UNCHANGED <<contents, m_onChangedCallbacks, m_containers>>
    /\ lastMsg' = Msg("RequestTreeUpdate", <<>>, NullValue, level)
    /\ UNCHANGED <<m_instance, m_typeId, obj, seq, map, overrideEnabled, objSerializedPath,
                   keyQuery, fault>>

\* the nodes directly below the node at p
Children(dom, p) == {q \in DOMAIN dom : Len(q) = Len(p) + 1 /\ IsPrefix(p, q)}

\* queueDescendantsForSearch (lines 1208-1219) for every node of a set
QueueDescendants(dom, S) == UNION {Children(dom, p) : p \in S}

\* the nodes propagateAttributeChangeToDescendants (lines 1242-1262) pops: the
\* queued ones, and the children of every popped node that is not disabled
RECURSIVE Popped(_, _)
Popped(dom, queued) ==
    LET more == queued \cup QueueDescendants(dom, {p \in queued : ~dom[p].disabled})
    IN  IF more = queued THEN queued ELSE Popped(dom, more)

PatchOp(op, path, attr) == [op |-> op, path |-> path, attr |-> attr]
PatchValue(patch) == [t |-> "patch", v |-> patch]
BoolValue(b) == [t |-> "bool", v |-> b]

\* the patch of handleSetNodeDisabled (lines 1264-1323) for a node of the DOM
DisabledPatch(dom, shouldDisable, targetNodePath) ==
    LET isRow == dom[targetNodePath].name = "Row"
        children == Children(dom, targetNodePath)
        direct == IF isRow
                  THEN {q \in children : dom[q].name # "Row" /\ dom[q].disabled # shouldDisable}
                  ELSE {targetNodePath}
        queued == IF isRow THEN QueueDescendants(dom, children) ELSE children
        inherited == {q \in Popped(dom, queued) :
                        dom[q].name # "Row" /\ dom[q].ancestorDisabled # shouldDisable}
        op == IF shouldDisable THEN "Add" ELSE "Remove"
    IN  {PatchOp(op, q, "Disabled") : q \in direct}
            \cup {PatchOp(op, q, "AncestorDisabled") : q \in inherited}

\* DocumentAdapter::NotifyContentsChanged: Add sets the attribute to true,
\* Remove takes it away
ApplyPatch(dom, patch) ==
    [q \in DOMAIN dom |->
        [dom[q] EXCEPT
            !.disabled = IF PatchOp("Add", q, "Disabled") \in patch THEN TRUE
                         ELSE IF PatchOp("Remove", q, "Disabled") \in patch THEN FALSE
                         ELSE @,
            !.ancestorDisabled =
                         IF PatchOp("Add", q, "AncestorDisabled") \in patch THEN TRUE
                         ELSE IF PatchOp("Remove", q, "AncestorDisabled") \in patch THEN FALSE
                         ELSE @]]

\* the calls of handleSetNodeDisabled (lines 1325-1328)
SetNodeDisabledCalls(targetNodePath, patch) ==
    IF patch # {}
    THEN <<Ev("NotifyContentsChanged", targetNodePath, "", PatchValue(patch), NullValue, "Patch")>>
    ELSE <<>>

\* HandleMessage, Adapter::SetNodeDisabled: handleSetNodeDisabled (lines 1188-1329)
SetNodeDisabled(shouldDisable, targetNodePath) ==
    /\ fault = "none"
    /\ UNCHANGED lightingData
    /\ IF targetNodePath \notin DOMAIN contents
       THEN trace' = <<>> /\ contents' = contents
       ELSE LET patch == DisabledPatch(contents, shouldDisable, targetNodePath)
            IN  /\ trace' = SetNodeDisabledCalls(targetNodePath, patch)
                /\ contents' = ApplyPatch(contents, patch)
    /\ lastMsg' = Msg("SetNodeDisabled", targetNodePath, BoolValue(shouldDisable), "")
    /\ UNCHANGED <<m_instance, m_typeId, obj, seq, map, overrideEnabled, objSerializedPath,
                   m_onChangedCallbacks, m_containers, keyQuery, fault>>

\* what stops the handling of a key message: the null containerEntry that is
\* dereferenced (lines 1384, 1393), or the assertion on the reserved element
\* where a failed assertion is fatal
KeyFault(tree, containerPath, assertion, fatal) ==
    IF ~HasParentEntry(tree, containerPath) THEN "containerEntry is nullptr"
    ELSE LET b == tree[ParentPathOf(tree, containerPath)].m_container
         IN  IF b.c # "none" /\ ~b.reserved.has /\ fatal THEN assertion ELSE "none"

\* the state after a key message that was stopped, or whose entry is bound to
\* no container
KeyStopped(assertion) ==
    /\ trace' = IF fault' = assertion THEN <<AssertFailed(assertion)>> ELSE <<>>
    /\ UNCHANGED <<seq, map, contents, m_onChangedCallbacks, m_containers>>

\* HandleMessage, Adapter::AddContainerKey: addKeyToContainer (lines 1381-1388),
\* for any path the message names; fatal: a failed assertion ends the program
AddContainerKey(key, containerPath, fatal) ==
    /\ fault = "none"
    /\ UNCHANGED lightingData
    /\ keyQuery' = IF keyQuery.pending /\ keyQuery.path = containerPath THEN NoQuery ELSE keyQuery
    /\ lastMsg' = Msg("AddContainerKey", containerPath, IntValue(key), "")
    /\ fault' = KeyFault(m_containers, containerPath,
                         "This BoundContainer has no reserved element to store", fatal)
    /\ IF fault' # "none"
       THEN KeyStopped("This BoundContainer has no reserved element to store")
       ELSE LET entryPath == ParentPathOf(m_containers, containerPath)
                b == m_containers[entryPath].m_container
            IN  IF b.c = "none"
                THEN KeyStopped("This BoundContainer has no reserved element to store")
                ELSE AfterContainerOperation(
                         OnAddElementToAssociativeContainer(b, seq, map, contents, m_containers,
                                                            containerPath, key),
                         TRUE, entryPath)
    /\ UNCHANGED <<m_instance, m_typeId, obj, overrideEnabled, objSerializedPath>>

\* HandleMessage, Adapter::RejectContainerKey: rejectKeyToContainer (lines 1390-1397)
RejectContainerKey(containerPath, fatal) ==
    /\ fault = "none"
    /\ UNCHANGED lightingData
    /\ keyQuery' = IF keyQuery.pending /\ keyQuery.path = containerPath THEN NoQuery ELSE keyQuery
    /\ lastMsg' = Msg("RejectContainerKey", containerPath, NullValue, "")
    /\ fault' = KeyFault(m_containers, containerPath,
                         "This BoundContainer has no reserved element to free", fatal)
    /\ IF fault' # "none"
       THEN KeyStopped("This BoundContainer has no reserved element to free")
       ELSE LET entryPath == ParentPathOf(m_containers, containerPath)
                b == m_containers[entryPath].m_container
            IN  IF b.c = "none"
                THEN KeyStopped("This BoundContainer has no reserved element to free")
                ELSE AfterContainerOperation(RejectAssociativeContainerKey(b, seq, map), TRUE, entryPath)
    /\ UNCHANGED <<m_instance, m_typeId, obj, overrideEnabled, objSerializedPath>>

\* the result of ChangeNotify.InvokeOnDomNode: a failure (the node has no
\* ChangeNotify to invoke), or a success carrying a refresh level
ChangeNotifyResults ==
    {[ok |-> FALSE, level |-> "Undefined"]} \cup {[ok |-> TRUE, level |-> l] : l \in RefreshLevels}

\* RequestTreeUpdate.InvokeOnDomNode(domNode, level), as an outbound call
TreeUpdateRequest(domNode, level) ==
    Ev("RequestTreeUpdate", domNode, "", NullValue, NullValue, level)

\* a change notification that requests a tree update for every successful
\* ChangeNotify, whatever the level
InvokeChangeNotifyCallsAnyLevel(domNode, changeNotify) ==
    <<ChangeNotify(domNode)>>
        \o (IF changeNotify.ok
            THEN <<TreeUpdateRequest(domNode, changeNotify.level)>>
            ELSE <<>>)

\* the calls of ReflectionAdapter::InvokeChangeNotify (lines 1113-1129)
InvokeChangeNotifyCalls(domNode, changeNotify) ==
    <<ChangeNotify(domNode)>>
        \o (IF changeNotify.ok
            THEN LET level == changeNotify.level
                 IN  IF level # "Undefined" /\ level # "None"
                     THEN <<TreeUpdateRequest(domNode, level)>>
                     ELSE <<>>
            ELSE <<>>)

\* VisitValue lines 412-413: the nodes that carry the adapter's handler for
\* RequestTreeUpdate are the PropertyEditors VisitValue builds
HandlesTreeUpdate(dom, domNode) ==
    domNode \in DOMAIN dom /\ dom[domNode].name = "PropertyEditor"

\* ReflectionAdapter::InvokeChangeNotify (lines 1113-1129) on the node at
\* domNode, ChangeNotify answering changeNotify; a RequestTreeUpdate invoked on
\* a node that carries the handler is handled by handleTreeUpdate
InvokeChangeNotify(domNode, changeNotify) ==
    /\ fault = "none"
    /\ UNCHANGED lightingData
    /\ LET calls == InvokeChangeNotifyCalls(domNode, changeNotify)
           requests == {i \in 1..Len(calls) : calls[i].op = "RequestTreeUpdate"}
           handled == requests # {} /\ HandlesTreeUpdate(contents, domNode)
       IN  /\ trace' = calls \o (IF handled THEN handleTreeUpdate(changeNotify.level) ELSE <<>>)
           /\ IF handled
              THEN NotifyResetDocument(m_instance, m_typeId, obj, seq, map)
              ELSE UNCHANGED <<contents, m_onChangedCallbacks, m_containers>>
    /\ lastMsg' = Msg("InvokeChangeNotify", domNode, [t |-> "ChangeNotify", v |-> changeNotify], "")
    /\ UNCHANGED <<m_instance, m_typeId, obj, seq, map, overrideEnabled, objSerializedPath,
                   keyQuery, fault>>

\* ------------------------------------------- the visit of one member
\* the Handler attribute of a value: absent, a string naming an editor, or a
\* value that is not a string
\* (kind, name); the EnumType attribute of a value: "absent", "null", or the
\* id of an enum type

\* an editor choice that looks at EnumType before Handler
GetPropertyEditorEnumFirst(handler, enumTypeHandler) ==
    IF enumTypeHandler # "absent" /\ enumTypeHandler # "null" THEN "ComboBox"
    ELSE IF handler.kind # "absent" /\ handler.kind = "string" THEN handler.name
    ELSE ""

\* GetPropertyEditor (lines 322-336)
GetPropertyEditor(handler, enumTypeHandler) ==
    IF handler.kind # "absent" /\ handler.kind = "string" THEN handler.name
    ELSE IF enumTypeHandler # "absent" /\ enumTypeHandler # "null" THEN "ComboBox"
    ELSE ""

\* VisitValue line 409: m_builder.BeginPropertyEditor(GetPropertyEditor(attributes), value)
BeginPropertyEditor(path, value, handler, enumTypeHandler) ==
    Ev("BeginPropertyEditor", path, "", value, NullValue,
       GetPropertyEditor(handler, enumTypeHandler))

\* the attributes of a container member and of its elements, none of them
\* given; isFixedSize is IDataContainer::IsFixedSize
NoAttributes ==
    [isFixedSize |-> FALSE, canBeModified |-> "absent", disabled |-> "absent",
     parentCanBeModified |-> "absent", ancestorDisabled |-> "absent",
     handler |-> [kind |-> "absent", name |-> ""], enumType |-> "absent"]

\* the row of the member
MemberRow == <<0>>

\* IDataContainer::Size of the member, and the instance of its i-th element
\* (from 1): the index in a sequence, the key in a map
MemberSize(c, s, m) == IF c = "seq" THEN Len(s) ELSE Cardinality(DOMAIN m)
MemberInstance(c, m, i) == IF c = "seq" THEN i ELSE KeyAt(m, i)

\* VisitObjectBegin: the leaf children of the member's row
MemberLeaves(c, s, m, attributes) ==
    <<LabelNode, LabelNode>>
        \o ContainerButtons(attributes.canBeModified, attributes.isFixedSize,
                            attributes.disabled, MemberSize(c, s, m))
        \o <<EditorNode(ContainerEditorValue(FALSE, <<>>, c), TRUE,
                         attributes.disabled = "true", FALSE)>>

\* the row of element i (from 1): after the leaves of the member's row
MemberElementRow(c, s, m, attributes, i) ==
    MemberRow \o <<Len(MemberLeaves(c, s, m, attributes)) + i - 1>>

\* VisitPrimitive: the leaf children of the row of element i
MemberElementLeaves(c, s, m, attributes, i) ==
    <<LabelNode, EditorNode(IntValue(IF c = "seq" THEN s[i] ELSE m[KeyAt(m, i)]), FALSE,
                            FALSE, attributes.ancestorDisabled = "true")>>
        \o CheckContainerElement(attributes.isFixedSize, attributes.parentCanBeModified,
                                 attributes.ancestorDisabled, TRUE, MemberSize(c, s, m),
                                 c = "seq", i - 1)

\* GenerateContents on an instance whose one member is the container c
MemberContents(c, s, m, attributes) ==
    LET n == MemberSize(c, s, m)
        rows == [i \in 1..n |->
                    (MemberElementRow(c, s, m, attributes, i) :> RowNode)
                        @@ Place(MemberElementRow(c, s, m, attributes, i),
                                 MemberElementLeaves(c, s, m, attributes, i))]
        merge[i \in 0..n] == IF i = 0 THEN <<>> ELSE rows[i] @@ merge[i - 1]
    IN  (<<>> :> AdapterNode)
            @@ (MemberRow :> RowNode)
            @@ Place(MemberRow, MemberLeaves(c, s, m, attributes))
            @@ merge[n]

\* VisitValue line 411, for the member and its elements
MemberCallbacks(c, s, m, attributes) ==
    LET leaves == Len(MemberLeaves(c, s, m, attributes))
    IN  ((MemberRow \o <<leaves - 1>>) :> Callback("pointer", IF c = "seq" THEN "seqAll" ELSE "mapAll", 0))
            @@ [p \in {EditorOf(MemberElementRow(c, s, m, attributes, i)) :
                          i \in 1..MemberSize(c, s, m)} |->
                  Callback("primitive", c, MemberInstance(c, m, p[Len(MemberRow) + 1] - leaves + 1))]

\* VisitObjectBegin line 872 and CheckContainerElement lines 681-691
MemberContainers(c, s, m, attributes) ==
    LET leaves == Len(MemberLeaves(c, s, m, attributes))
    IN  (MemberRow :> ContainerEntry(BoundContainer(c), NoElement))
            @@ [p \in {MemberElementRow(c, s, m, attributes, i) :
                          i \in 1..MemberSize(c, s, m)} |->
                  ContainerEntry(NoBound,
                                 ContainerElement(c, MemberInstance(c, m, p[Len(MemberRow) + 1] - leaves + 1)))]

\* the property editors the builder is asked to begin, in visiting order
MemberEditors(c, s, m, attributes) ==
    LET leaves == Len(MemberLeaves(c, s, m, attributes))
    IN  <<BeginPropertyEditor(MemberRow \o <<leaves - 1>>, ContainerEditorValue(FALSE, <<>>, c),
                              NoAttributes.handler, NoAttributes.enumType)>>
            \o [i \in 1..MemberSize(c, s, m) |->
                  BeginPropertyEditor(EditorOf(MemberElementRow(c, s, m, attributes, i)),
                                      IntValue(IF c = "seq" THEN s[i] ELSE m[KeyAt(m, i)]),
                                      attributes.handler, attributes.enumType)]

\* the adapter is given its instance and generates the contents of the member
\* c, with the attributes the reflection gives the member and its elements
Visit(c, attributes) ==
    /\ fault = "none"
    /\ UNCHANGED lightingData
    /\ m_instance = "nullptr"
    /\ m_instance' = "root"
    /\ m_typeId' = "Root"
    /\ contents' = MemberContents(c, seq, map, attributes)
    /\ m_onChangedCallbacks' = MemberCallbacks(c, seq, map, attributes)
    /\ m_containers' = MemberContainers(c, seq, map, attributes)
    /\ trace' = MemberEditors(c, seq, map, attributes)
    /\ keyQuery' = NoQuery

\* VisitObjectBegin on a container member
VisitContainer(c, attributes) ==
    /\ Visit(c, attributes)
    /\ lastMsg' = Msg("VisitObjectBegin", MemberRow, [t |-> "attributes", v |-> attributes], c)
    /\ UNCHANGED <<obj, seq, map, overrideEnabled, objSerializedPath, fault>>

\* VisitPrimitive on the elements of a container member
VisitElements(c, attributes) ==
    /\ MemberSize(c, seq, map) > 0
    /\ Visit(c, attributes)
    /\ lastMsg' = Msg("VisitPrimitive", MemberRow, [t |-> "attributes", v |-> attributes], c)
    /\ UNCHANGED <<obj, seq, map, overrideEnabled, objSerializedPath, fault>>

\* ------------------------------------------------ SimplePointLight.azsli
\* Lengths are whole multiples of half a millimetre and a real is a fraction
\* of naturals in lowest terms, so that the arithmetic is exact.
MaxCoord == 2
MaxRadius == 2
\* the contributions a lightingData holds at most
MaxTerms == 3

RECURSIVE GCD(_, _)
GCD(a, b) == IF b = 0 THEN a ELSE GCD(b, a % b)

Frac(n, d) ==
    LET g == GCD(n, d)
    IN  IF g = 0 THEN [num |-> 0, den |-> 0] ELSE [num |-> n \div g, den |-> d \div g]

\* the lights: a position, an infinite or a whole attenuation radius, an
\* intensity per channel, a mask of lighting channels
Lights ==
    [m_position : {<<x, 0, 0>> : x \in 0..MaxCoord},
     m_invAttenuationRadiusSquared : {Frac(0, 1)} \cup {Frac(1, r * r) : r \in 1..MaxRadius},
     m_rgbIntensityCandelas : {<<4, 2, 0>>},
     m_lightingChannelMask : {1, 2}]

\* dot(a, b) and a - b of real3
Dot(a, b) == a[1] * b[1] + a[2] * b[2] + a[3] * b[3]
Minus(a, b) == <<a[1] - b[1], a[2] - b[2], a[3] - b[3]>>

\* normalize(v): the direction of v, as the shortest whole vector along it;
\* not a number for the zero vector
Normalize(v) ==
    LET abs == [ch \in 1..3 |-> IF v[ch] < 0 THEN -v[ch] ELSE v[ch]]
        g == GCD(GCD(abs[1], abs[2]), abs[3])
    IN  IF g = 0 THEN [nan |-> TRUE, v |-> v]
        ELSE [nan |-> FALSE, v |-> <<v[1] \div g, v[2] \div g, v[3] \div g>>]

\* 0.001 * 0.001 square metres: two by two half millimetres
MinDistanceSquared == 4

\* a squared distance left as it is
UnclampedDistanceSquared(d2) == d2

\* line 27: max(0.001 * 0.001, d2)
ClampedDistanceSquared(d2) == IF MinDistanceSquared > d2 THEN MinDistanceSquared ELSE d2

\* lines 22-23: (1 - falloff^2)^2
RadiusAttenuation(falloff) ==
    LET once == Frac(falloff.den * falloff.den - falloff.num * falloff.num,
                     falloff.den * falloff.den)
    IN  Frac(once.num * once.num, once.den * once.den)

\* line 28: (rgb / d2) * radiusAttenuation, per channel
LightIntensity(rgb, d2, radiusAttenuation) ==
    [ch \in 1..3 |-> Frac(rgb[ch] * radiusAttenuation.num, d2 * radiusAttenuation.den)]

\* the contributions of a light to a surface, as the terms they are: the
\* functions are defined by the material
GetDiffuseLighting(surface, lightIntensity, dirToLight) ==
    [fn |-> "GetDiffuseLighting", surface |-> surface,
     lightIntensity |-> lightIntensity, dirToLight |-> dirToLight]
GetSpecularLighting(surface, lightIntensity, dirToLight) ==
    [fn |-> "GetSpecularLighting", surface |-> surface,
     lightIntensity |-> lightIntensity, dirToLight |-> dirToLight]

\* LightingData: diffuseLighting and specularLighting are sums, held as the
\* sequences of their terms; lightingChannels is a mask
NoLighting == [diffuseLighting |-> <<>>, specularLighting |-> <<>>, lightingChannels |-> 1]

\* IsSameLightChannel(channelA, channelB): the two masks share a bit
RECURSIVE IsSameLightChannel(_, _)
IsSameLightChannel(channelA, channelB) ==
    /\ channelA # 0
    /\ channelB # 0
    /\ \/ channelA % 2 = 1 /\ channelB % 2 = 1
       \/ IsSameLightChannel(channelA \div 2, channelB \div 2)

\* ApplySimplePointLight (lines 13-37): the lightingData it leaves
SimplePointLightApplied(light, surface, data) ==
    LET posToLight == Minus(light.m_position, surface.position)
        d2 == Dot(posToLight, posToLight)
        falloff == Frac(d2 * light.m_invAttenuationRadiusSquared.num,
                        light.m_invAttenuationRadiusSquared.den)
    IN  IF falloff.num < falloff.den
        THEN LET radiusAttenuation == RadiusAttenuation(falloff)
                 lightIntensity == LightIntensity(light.m_rgbIntensityCandelas,
                                                  ClampedDistanceSquared(d2), radiusAttenuation)
                 posToLightDir == Normalize(posToLight)
             IN  [data EXCEPT
                      !.diffuseLighting =
                          Append(@, GetDiffuseLighting(surface, lightIntensity, posToLightDir)),
                      !.specularLighting =
                          Append(@, GetSpecularLighting(surface, lightIntensity, posToLightDir))]
        ELSE data

\* ApplySimplePointLights (lines 39-66): the lightingData it leaves; lights are
\* the lights of the view the loop visits, in order: those the tile iterator
\* yields with light culling, all of them without
RECURSIVE SimplePointLightsApplied(_, _, _)
SimplePointLightsApplied(lights, surface, data) ==
    IF lights = <<>> THEN data
    ELSE SimplePointLightsApplied(
             Tail(lights), surface,
             IF ~IsSameLightChannel(data.lightingChannels, Head(lights).m_lightingChannelMask)
             THEN data
             ELSE SimplePointLightApplied(Head(lights), surface, data))

\* one light is applied to the lighting of a surface
ApplySimplePointLight(light, surface) ==
    /\ Len(lightingData.diffuseLighting) < MaxTerms
    /\ lightingData' = SimplePointLightApplied(light, surface, lightingData)
    /\ lastMsg' = Msg("ApplySimplePointLight", <<>>,
                      [t |-> "light", v |-> [light |-> light, surface |-> surface]], "")
    /\ trace' = <<>>
    /\ UNCHANGED <<m_instance, m_typeId, obj, seq, map, overrideEnabled, objSerializedPath,
                   contents, m_onChangedCallbacks, m_containers, keyQuery, fault>>

\* the lights of the view are applied to the lighting of a surface
ApplySimplePointLights(surface, lights) ==
    /\ Len(lightingData.diffuseLighting) + Len(lights) <= MaxTerms
    /\ lightingData' = SimplePointLightsApplied(lights, surface, lightingData)
    /\ lastMsg' = Msg("ApplySimplePointLights", <<>>,
                      [t |-> "lights", v |-> [lights |-> lights, surface |-> surface]], "")
    /\ trace' = <<>>
    /\ UNCHANGED <<m_instance, m_typeId, obj, seq, map, overrideEnabled, objSerializedPath,
                   contents, m_onChangedCallbacks, m_containers, keyQuery, fault>>

\* ------------------------------------------------------- specifications
AllSeqs == UNION {[1..n -> Vals] : n \in 0..SeqCapacity}

\* the state after ReflectionAdapter(instance, typeId) (lines 1094-1099) on
\* live memory o, s, m
Constructed(o, s, m) ==
    /\ m_instance = "root"
    /\ m_typeId = "Root"
    /\ obj = o
    /\ seq = s
    /\ map = m
    /\ contents = GenContents("root", "Root", overrideEnabled, objSerializedPath, o, s, m)
    /\ m_onChangedCallbacks = GenCallbacks("root", "Root", overrideEnabled, objSerializedPath, s, m)
    /\ m_containers = GenContainers("root", "Root", s, m)
    /\ keyQuery = NoQuery
    /\ lastMsg = SetValueMsg("nullptr", "root", "Root")
    /\ trace = SetValueCalls
    /\ fault = "none"

\* the nodes of the document by name
NodesNamed(names) == {p \in DOMAIN contents : contents[p].name \in names}

\* a ContainerActionButton the view can activate: neither it nor an ancestor
\* is disabled
EnabledButtons ==
    {p \in NodesNamed({"ContainerActionButton"}) :
        ~contents[p].disabled /\ ~contents[p].ancestorDisabled}

\* the nodes the view disables and enables: the row of the map and the
\* AddElement button of the sequence; it enables a node other than a row only
\* when that node is disabled
DisableTargets(shouldDisable) ==
    {p \in {MapRow, SeqRow \o <<2>>} :
        \/ shouldDisable
        \/ p \notin DOMAIN contents
        \/ contents[p].name = "Row"
        \/ contents[p].disabled}

\* --- the container operations, on any sequence container; override
\* management is off: no container operation reads the cvar or a Value
InitContainers ==
    /\ lightingData = NoLighting
    /\ overrideEnabled = FALSE
    /\ objSerializedPath = "obj"
    /\ \E s \in AllSeqs : Constructed(DefaultObject, s, EmptyMap)

NextContainers ==
    \* the type of the root instance, and a type the reflection does not know
    \/ \E inst \in {"nullptr", "root"}, type \in {"Root", "Unreflected"} : SetValue(inst, type)
    \/ \E origin \in EnabledButtons \cup {<<>>, EditorOf(ObjRow), SeqRow \o <<0>>} : OnActivate(origin)
    \/ \E level \in RefreshLevels : RequestTreeUpdate(level)
    \/ \E shouldDisable \in BOOLEAN :
         \E target \in DisableTargets(shouldDisable) : SetNodeDisabled(shouldDisable, target)
    \/ \E key \in Keys, containerPath \in {SeqRow \o <<2>>, MapRow \o <<2>>}, fatal \in BOOLEAN :
         AddContainerKey(key, containerPath, fatal)
    \/ \E containerPath \in {SeqRow \o <<2>>, MapRow \o <<2>>}, fatal \in BOOLEAN :
         RejectContainerKey(containerPath, fatal)

SpecContainers == InitContainers /\ [][NextContainers]_vars

\* --- the edits of values
\* where an OnChanged message comes from: an editor, or a path that is a
\* parent or a child of an editor's path
OnChangedOrigins ==
    NodesNamed({"PropertyEditor", "Row"}) \cup {EditorOf(ObjRow) \o <<0>>}

\* the member has no SerializedPath, an empty one or a path; the first gives
\* the same editor and callback with override management on or off (line 939),
\* the other two differ only with override management on
InitEdit ==
    /\ lightingData = NoLighting
    /\ overrideEnabled \in BOOLEAN
    /\ objSerializedPath \in IF overrideEnabled THEN {"", "obj"} ELSE {"absent"}
    /\ Constructed(DefaultObject, <<0>>, EmptyMap)

NextEdit ==
    \/ \E origin \in OnChangedOrigins :
         \E v \in ValuesFor(origin), ct \in ChangeTypes :
           \E oc \in OutcomesFor(origin, v) :
             \E ap \in AppliedFor(v, oc) :
               OnChanged(origin, v, ct, oc, ap)
    \/ \E level \in RefreshLevels : RequestTreeUpdate(level)

SpecEdit == InitEdit /\ [][NextEdit]_vars

\* --- the generation of the contents of a container member, for the
\* attributes the reflection can give it; override management is off
InitVisit ==
    /\ lightingData = NoLighting
    /\ overrideEnabled = FALSE
    /\ objSerializedPath = "obj"
    /\ m_instance = "nullptr"
    /\ m_typeId = "Root"
    /\ obj = DefaultObject
    /\ seq \in AllSeqs
    /\ map \in {[k \in D |-> 0] : D \in SUBSET Keys}
    /\ contents = GenContents("nullptr", "Root", overrideEnabled, objSerializedPath, obj, seq, map)
    /\ m_onChangedCallbacks = GenCallbacks("nullptr", "Root", overrideEnabled, objSerializedPath, seq, map)
    /\ m_containers = GenContainers("nullptr", "Root", seq, map)
    /\ keyQuery = NoQuery
    /\ lastMsg = SetValueMsg("nullptr", "nullptr", "Root")
    /\ trace = SetValueCalls
    /\ fault = "none"

NextVisit ==
    \/ \E c \in {"seq", "map"}, f \in BOOLEAN, cm \in AttrValues, d \in AttrValues :
         VisitContainer(c, [NoAttributes EXCEPT !.isFixedSize = f, !.canBeModified = cm,
                                                !.disabled = d])
    \/ \E c \in {"seq", "map"}, f \in BOOLEAN, cm \in AttrValues, ad \in {"absent", "true"} :
         \E kind \in {"absent", "int", "string"}, et \in {"absent", "null", "typeid"} :
           \E name \in IF kind = "string" THEN {"", "Slider"} ELSE {""} :
             VisitElements(c, [NoAttributes EXCEPT !.isFixedSize = f,
                                                   !.parentCanBeModified = cm,
                                                   !.ancestorDisabled = ad,
                                                   !.handler = [kind |-> kind, name |-> name],
                                                   !.enumType = et])

SpecVisit == InitVisit /\ [][NextVisit]_vars

\* --- the shading of a surface by simple point lights: the lighting starts
\* empty, for the first lighting channel or for the first two; the adapter has
\* no instance
InitLight ==
    /\ lightingData \in {[NoLighting EXCEPT !.lightingChannels = c] : c \in {1, 3}}
    /\ overrideEnabled = FALSE
    /\ objSerializedPath = "obj"
    /\ m_instance = "nullptr"
    /\ m_typeId = "Root"
    /\ obj = DefaultObject
    /\ seq = <<>>
    /\ map = EmptyMap
    /\ contents = GenContents("nullptr", "Root", overrideEnabled, objSerializedPath, obj, seq, map)
    /\ m_onChangedCallbacks = GenCallbacks("nullptr", "Root", overrideEnabled, objSerializedPath, seq, map)
    /\ m_containers = GenContainers("nullptr", "Root", seq, map)
    /\ keyQuery = NoQuery
    /\ lastMsg = SetValueMsg("nullptr", "nullptr", "Root")
    /\ trace = SetValueCalls
    /\ fault = "none"

\* a surface at the origin is lit by any light, one away from it by the
\* lights of infinite radius; the view holds lights a half millimetre from the
\* origin, with an infinite radius or one of half a millimetre
NextLight ==
    \/ \E light \in Lights :
         \E position \in IF light.m_invAttenuationRadiusSquared.num = 0
                          THEN {<<0, 0, 0>>, <<1, 1, 0>>} ELSE {<<0, 0, 0>>} :
           ApplySimplePointLight(light, [position |-> position])
    \/ \E position \in {<<0, 0, 0>>, <<1, 1, 0>>}, n \in 0..MaxTerms :
         \E lights \in [1..n -> {l \in Lights :
                                    /\ l.m_position = <<1, 0, 0>>
                                    /\ l.m_rgbIntensityCandelas = <<4, 2, 0>>
                                    /\ l.m_invAttenuationRadiusSquared.den = 1}] :
           ApplySimplePointLights([position |-> position], lights)

SpecLight == InitLight /\ [][NextLight]_vars

\* --- the change notifications of the view
InitNotify ==
    /\ lightingData = NoLighting
    /\ overrideEnabled = FALSE
    /\ objSerializedPath = "obj"
    /\ \E s \in AllSeqs : Constructed(DefaultObject, s, EmptyMap)

NextNotify ==
    \/ \E domNode \in DOMAIN contents, changeNotify \in ChangeNotifyResults :
         InvokeChangeNotify(domNode, changeNotify)
    \/ \E level \in RefreshLevels : RequestTreeUpdate(level)

SpecNotify == InitNotify /\ [][NextNotify]_vars

\* ================================================================ claims
\* --- C1
\* C1: handling OnChanged, if and only if a callback is registered at exactly
\* the origin of the message: the callback is invoked once with the value of
\* the editor, then one Replace patch at origin/"Value" carrying the value the
\* callback returned is sent, then the property-change event is signalled once
\* with the same path, the returned value and the change type of the message,
\* in this order.  With no callback at that exact path nothing is called, no
\* instance is written and the DOM is not patched.
C1_Step ==
    lastMsg'.type = "OnChanged" =>
        IF lastMsg'.origin \in DOMAIN m_onChangedCallbacks
        THEN /\ Len(trace') = 3
             /\ trace'[1].op = "onChanged"
             /\ trace'[1].path = lastMsg'.origin
             /\ trace'[1].val = lastMsg'.value
             /\ trace'[2].op = "NotifyContentsChanged"
             /\ trace'[2].aux = "Replace"
             /\ trace'[2].path = lastMsg'.origin
             /\ trace'[2].attr = "Value"
             /\ trace'[2].val = trace'[1].ret
             /\ trace'[3].op = "PropertyChangeEvent"
             /\ trace'[3].path = lastMsg'.origin
             /\ trace'[3].val = trace'[1].ret
             /\ trace'[3].aux = lastMsg'.aux
             /\ contents'[lastMsg'.origin].value = trace'[1].ret
        ELSE /\ trace' = <<>>
             /\ UNCHANGED <<obj, seq, map, contents>>

C1_OnChangedProtocol == [][C1_Step]_vars

\* the editor of the sequence sent the value it held since before the
\* element was edited to 1: the callback loaded it into the sequence and
\* returned the serialization of the sequence, which is what was patched and
\* signalled; the editor of the element still shows 1
C1_Witness ==
    /\ lastMsg.type = "OnChanged"
    /\ lastMsg.origin = ContainerEditorOf(SeqRow)
    /\ lastMsg.value = [t |-> "array", v |-> <<0>>]
    /\ Len(trace) = 3
    /\ trace[1].aux = ""
    /\ trace[2].val = lastMsg.value
    /\ trace[3].val = lastMsg.value
    /\ contents[EditorOf(ElementRow(SeqRow, 1))].value = IntValue(1)
    /\ seq = <<0>>

\* --- C2
\* the sequence s without its element i (from 1)
WithoutElement(s, i) == SubSeq(s, 1, i - 1) \o SubSeq(s, i + 1, Len(s))

\* the sequence s with its elements i and j (from 1) exchanged
Exchanged(s, t, i, j) ==
    /\ Len(t) = Len(s)
    /\ t[i] = s[j]
    /\ t[j] = s[i]
    /\ \A n \in 1..Len(s) : n \notin {i, j} => t[n] = s[n]

\* C2: handling OnActivate from a button with a container entry among the
\* parent paths of its origin: AddElement on the sequence container below its
\* capacity appends one new element (at capacity it stores nothing), Remove
\* takes exactly the element of the entry out of its parent container, Clear
\* leaves the container empty, MoveUp / MoveDown exchange the element at the
\* button's ContainerIndex with its predecessor / successor; the other
\* container is untouched.  An action whose binding is absent from the entry,
\* and a node with no Action, change nothing, and so does an origin with no
\* parent entry.
C2_Step ==
    lastMsg'.type = "OnActivate" =>
        LET origin == lastMsg'.origin
        IN  IF Len(origin) = 0 \/ ~HasParentEntry(m_containers, origin)
            THEN trace' = <<>> /\ UNCHANGED <<obj, seq, map, contents, m_containers>>
            ELSE LET entry == m_containers[ParentPathOf(m_containers, origin)]
                     button == contents[origin]
                     bound == entry.m_container.c
                     element == entry.m_element
                 IN  /\ obj' = obj
                     /\ button.action = "" => trace' = <<>> /\ UNCHANGED <<seq, map, contents>>
                     /\ button.action = "AddElement" =>
                          CASE bound = "none" -> UNCHANGED <<seq, map>>
                            [] bound = "seq" ->
                                 /\ map' = map
                                 /\ IF Len(seq) < SeqCapacity
                                    THEN Len(seq') = Len(seq) + 1 /\ SubSeq(seq', 1, Len(seq)) = seq
                                    ELSE seq' = seq /\ trace' = <<>>
                            [] OTHER -> TRUE
                     /\ button.action = "RemoveElement" =>
                          CASE element.c = "none" -> UNCHANGED <<seq, map>>
                            [] element.c = "seq" ->
                                 map' = map /\ seq' = WithoutElement(seq, element.e)
                            [] OTHER ->
                                 /\ seq' = seq
                                 /\ DOMAIN map' = DOMAIN map \ {element.e}
                                 /\ \A k \in DOMAIN map' : map'[k] = map[k]
                     /\ button.action = "Clear" =>
                          CASE bound = "none" -> UNCHANGED <<seq, map>>
                            [] bound = "seq" -> seq' = <<>> /\ map' = map
                            [] OTHER -> DOMAIN map' = {} /\ seq' = seq
                     /\ button.action = "MoveUp" =>
                          IF element.c = "none" THEN UNCHANGED <<seq, map>>
                          ELSE map' = map /\ Exchanged(seq, seq', button.index + 1, button.index)
                     /\ button.action = "MoveDown" =>
                          IF element.c = "none" THEN UNCHANGED <<seq, map>>
                          ELSE map' = map /\ Exchanged(seq, seq', button.index + 1, button.index + 2)

C2_ContainerMutations == [][C2_Step]_vars

\* MoveDown on the first of two elements 0, 1 exchanged them
C2_Witness ==
    /\ lastMsg.type = "OnActivate"
    /\ lastMsg.origin = ElementRow(SeqRow, 1) \o <<3>>
    /\ Len(trace) = 3
    /\ trace[1].op = "SwapElements"
    /\ trace[1].val = IntValue(0)
    /\ trace[1].ret = IntValue(1)
    /\ seq = <<1, 0>>

\* --- C3
MutatingCalls == {"ClearElements", "RemoveElement", "SwapElements", "StoreElement"}

\* the positions of the calls of trace t whose op is in ops
Positions(t, ops) == {i \in 1..Len(t) : t[i].op \in ops}

\* the positions of the calls of trace t that mutated a container: StoreElement
\* of no element (nullptr) stores nothing
Mutations(t) == {i \in Positions(t, MutatingCalls) : t[i].val.t # "pointer"}

\* C3: whenever a handler mutated a container (Clear, Remove, Move, a stored
\* AddElement, AddContainerKey), the call that mutates is followed at once by
\* one ChangeNotify on the PropertyEditor of that container's row and then by
\* one soft NotifyResetDocument, and nothing else follows; no reset comes
\* before the mutation, the document generated by the reset is that of the
\* mutated containers, and the container operations reset the document only
\* after a mutation.
C3_Step ==
    LET t == trace'
        n == Len(t)
        mutations == Mutations(t)
        resets == Positions(t, {"NotifyResetDocument"})
        notifies == Positions(t, {"ChangeNotify"})
    IN  /\ mutations # {} =>
              /\ mutations = {n - 2}
              /\ notifies = {n - 1}
              /\ resets = {n}
              /\ t[n].aux = "SoftReset"
              /\ t[n - 1].path = ContainerEditorOf(IF t[n - 2].aux = "seq" THEN SeqRow ELSE MapRow)
              /\ contents[t[n - 1].path].name = "PropertyEditor"
              /\ contents' = GenContents(m_instance, m_typeId, overrideEnabled, objSerializedPath,
                                          obj', seq', map')
        /\ (/\ lastMsg'.type \in {"OnActivate", "AddContainerKey", "RejectContainerKey"}
            /\ resets \cup notifies # {}) => mutations # {}

C3_NotifyAfterMutation == [][C3_Step]_vars


\* --- C4
\* the step handled OnChanged through the write-back callback of a
\* non-primitive object: the member, or a container as a whole
ObjectEdited ==
    /\ lastMsg'.type = "OnChanged"
    /\ lastMsg'.origin \in DOMAIN m_onChangedCallbacks
    /\ m_onChangedCallbacks[lastMsg'.origin].kind \in {"pointer", "serialized"}

\* C4: the write-back callback of a non-primitive object (either kind, of the
\* member or of a container) writes the edited value into the live instance:
\* with no halted step every member or element the value holds is written and
\* the others are kept; the pointer to the instance itself holds nothing to
\* write.  When a step halted the callback returns the editor's value
\* unchanged, and when the halted step is the Store of the marshalled pointer
\* the instance is left as it was.  StoreValueIntoPointer returns the
\* editor's value in every case.  No other object is written.
C4_Step ==
    ObjectEdited =>
        LET c == m_onChangedCallbacks[lastMsg'.origin].c
            value == lastMsg'.value
            ret == trace'[1].ret
            error == trace'[1].aux
            held == IF value.t = "pointer" THEN {} ELSE DOMAIN value.v
        IN  /\ error # "" => ret = value
            /\ m_onChangedCallbacks[lastMsg'.origin].kind = "pointer" => ret = value
            /\ IF c = "obj"
               THEN /\ error = StoreError => obj' = obj
                    /\ error = "" =>
                         \A f \in Fields :
                            obj'[f] = IF f \in held THEN value.v[f] ELSE obj[f]
                    /\ UNCHANGED <<seq, map>>
               ELSE IF c = "seqAll"
               THEN /\ error = StoreError => seq' = seq
                    /\ Len(seq') = Len(seq)
                    /\ error = "" =>
                         \A i \in 1..Len(seq) :
                            seq'[i] = IF i \in held THEN value.v[i] ELSE seq[i]
                    /\ UNCHANGED <<obj, map>>
               ELSE /\ error = StoreError => map' = map
                    /\ DOMAIN map' = DOMAIN map
                    /\ error = "" =>
                         \A k \in DOMAIN map :
                            map'[k] = IF k \in held THEN value.v[k] ELSE map[k]
                    /\ UNCHANGED <<obj, seq>>

C4_WriteBackHalts == [][C4_Step]_vars

\* the Store of an opaque value that differs from the instance halted: the
\* value came back and the instance does not hold it
C4_Witness ==
    /\ lastMsg.type = "OnChanged"
    /\ Len(trace) = 3
    /\ trace[1].aux = StoreError
    /\ lastMsg.value.t = "opaque"
    /\ trace[1].ret = lastMsg.value
    /\ contents[lastMsg.origin].value = lastMsg.value
    /\ lastMsg.value.v # obj

\* --- C5
\* the step handled a successful OnChanged of the editor of a non-primitive
\* object that has a SerializedPath, with override management enabled: the
\* member when its path is not empty, or a container
SerializedEdited ==
    /\ overrideEnabled
    /\ lastMsg'.type = "OnChanged"
    /\ \/ lastMsg'.origin = EditorOf(ObjRow) /\ ExtractSerializedPath(objSerializedPath) # ""
       \/ lastMsg'.origin \in {ContainerEditorOf(SeqRow), ContainerEditorOf(MapRow)}
    /\ trace'[1].aux = ""

\* C5: after a successful edit under override management the DOM Value at the
\* path is the value the callback returned, the complete serialization
\* (defaults kept) of the instance after the write: every member of the
\* object, every element of the container.  It is the callback's
\* serialization and not the editor's value passed through: the editor's
\* value is not what is stored whenever it is an opaque value or lacks a
\* member.
C5_Step ==
    SerializedEdited =>
        LET value == lastMsg'.value
            stored == contents'[lastMsg'.origin].value
        IN  /\ stored = trace'[1].ret
            /\ IF lastMsg'.origin = EditorOf(ObjRow)
               THEN stored.t = "json" /\ stored.v = obj' /\ DOMAIN stored.v = Fields
               ELSE IF lastMsg'.origin = ContainerEditorOf(SeqRow)
               THEN stored.t = "array" /\ stored.v = seq'
                        /\ DOMAIN stored.v = 1..Len(seq')
               ELSE stored.t = "array" /\ stored.v = map'
                        /\ DOMAIN stored.v = DOMAIN map'
            /\ (value.t = "opaque" \/ DOMAIN value.v # DOMAIN stored.v) => stored # value

C5_CompleteSerialization == [][C5_Step]_vars

\* an opaque value was written: the DOM holds the serialization of the
\* instance, not the opaque value
C5_Witness ==
    /\ overrideEnabled
    /\ ExtractSerializedPath(objSerializedPath) # ""
    /\ lastMsg.type = "OnChanged"
    /\ lastMsg.origin = EditorOf(ObjRow)
    /\ lastMsg.value = OpaqueValue([x |-> 1, y |-> 0])
    /\ Len(trace) = 3
    /\ trace[1].aux = ""
    /\ obj = [x |-> 1, y |-> 0]
    /\ contents[lastMsg.origin].value = JsonValue(obj)

\* --- C6
HardResets == Positions(trace, {"NotifyResetDocument"}) \cap {i \in 1..Len(trace) : trace[i].aux = "HardReset"}

\* C6: after SetValue (the constructor included) the adapter holds the
\* instance and the type id it was given and has notified exactly one reset of
\* the document, of type HardReset, also when the instance set is the one it
\* held; after any other operation no HardReset has been notified.
C6_HardResetOnlyOnSetValue ==
    IF lastMsg.type = "SetValue"
    THEN /\ m_instance = lastMsg.aux
         /\ m_typeId = lastMsg.value.v.typeId
         /\ trace = <<ResetEvent("HardReset")>>
    ELSE HardResets = {}

\* the instance the adapter held was set again, after a pair was added to the
\* map: the document was reset hard
C6_Witness ==
    /\ lastMsg.type = "SetValue"
    /\ lastMsg.aux = "root"
    /\ lastMsg.value.v.previous = "root"
    /\ m_instance = "root"
    /\ trace = <<ResetEvent("HardReset")>>
    /\ DOMAIN map # {}

\* --- C7
\* the step handled a key message for a path below the row of a bound container
KeyHandled(type) ==
    /\ lastMsg'.type = type
    /\ HasParentEntry(m_containers, lastMsg'.origin)
    /\ m_containers[ParentPathOf(m_containers, lastMsg'.origin)].m_container.c # "none"

\* C7: AddElement on the associative container, whose element declares a
\* KeyType, reserves one element and sends QueryKey with the path of the
\* button, and nothing else: the containers and the document are unchanged and
\* the reservation is held.  Handling AddContainerKey for the container sets
\* the key of the reserved element, stores the element in the container,
\* clears the reservation, then notifies the change and resets the document.
C7_Step ==
    /\ (/\ lastMsg'.type = "OnActivate"
        /\ HasParentEntry(m_containers, lastMsg'.origin)
        /\ lastMsg'.origin \in DOMAIN contents
        /\ contents[lastMsg'.origin].action = "AddElement"
        /\ m_containers[ParentPathOf(m_containers, lastMsg'.origin)].m_container.c = "map") =>
          LET entryPath == ParentPathOf(m_containers, lastMsg'.origin)
          IN  /\ Len(trace') = 2
              /\ trace'[1].op = "ReserveElement"
              /\ trace'[2].op = "QueryKey"
              /\ trace'[2].path = lastMsg'.origin
              /\ UNCHANGED <<obj, seq, map, contents, m_onChangedCallbacks>>
              /\ m_containers'[entryPath].m_container.reserved.has
              /\ keyQuery' = [pending |-> TRUE, path |-> lastMsg'.origin]
    /\ KeyHandled("AddContainerKey") =>
          LET key == lastMsg'.value.v
          IN  /\ fault' = "none"
              /\ Len(trace') = 4
              /\ trace'[1].op = "SetElementKey"
              /\ trace'[1].val = IntValue(key)
              /\ trace'[2].op = "StoreElement"
              /\ trace'[2].val = IntValue(key)
              /\ trace'[3].op = "ChangeNotify"
              /\ trace'[4] = ResetEvent("SoftReset")
              /\ DOMAIN map' = DOMAIN map \cup {key}
              /\ \A k \in DOMAIN map : map'[k] = map[k]
              /\ \A p \in DOMAIN m_containers' : ~m_containers'[p].m_container.reserved.has

C7_AssociativeAdd == [][C7_Step]_vars

\* --- C8
\* C8: handling RejectContainerKey for a container that holds a reserved
\* element frees the element through the container and clears the
\* reservation, and does nothing else: no assertion fails, the containers,
\* the instance, the document and the callbacks are as before, and there is
\* no ChangeNotify, no patch and no reset.
C8_Step ==
    (/\ KeyHandled("RejectContainerKey")
     /\ m_containers[ParentPathOf(m_containers, lastMsg'.origin)].m_container.reserved.has) =>
        LET entryPath == ParentPathOf(m_containers, lastMsg'.origin)
        IN  /\ fault' = "none"
            /\ trace' = <<Call("FreeReservedElement", m_containers[entryPath].m_container.c,
                                NullValue, NullValue)>>
            /\ m_containers' = [m_containers EXCEPT ![entryPath].m_container.reserved = NoReserved]
            /\ UNCHANGED <<obj, seq, map, contents, m_onChangedCallbacks, m_instance, m_typeId>>

C8_RejectFrame == [][C8_Step]_vars

\* a key was rejected for the map, which held a pair already: the reserved
\* element was freed, the pair is still there
C8_Witness ==
    /\ lastMsg.type = "RejectContainerKey"
    /\ fault = "none"
    /\ Len(trace) = 1
    /\ trace[1].op = "FreeReservedElement"
    /\ DOMAIN map = {0}
    /\ ~m_containers[MapRow].m_container.reserved.has

\* --- C9
\* C9: whenever AddContainerKey or RejectContainerKey is handled for a bound
\* container, the container holds a reserved element and neither assertion
\* fails.
C9_Step ==
    (KeyHandled("AddContainerKey") \/ KeyHandled("RejectContainerKey")) =>
        /\ m_containers[ParentPathOf(m_containers, lastMsg'.origin)].m_container.reserved.has
        /\ fault' = "none"

C9_ReservedElementHeld == [][C9_Step]_vars

\* --- C10
\* C10: handling RequestTreeUpdate notifies exactly one reset of the document,
\* a soft one, whatever the refresh level of the message, and leaves the live
\* instance, the live containers and the adapter's instance and type as they
\* were.
C10_Step ==
    lastMsg'.type = "RequestTreeUpdate" =>
        /\ trace' = <<ResetEvent("SoftReset")>>
        /\ UNCHANGED <<obj, seq, map, m_instance, m_typeId>>
        /\ contents' = GenContents(m_instance, m_typeId, overrideEnabled, objSerializedPath, obj, seq, map)

C10_TreeUpdateSoftReset == [][C10_Step]_vars

\* a tree update with refresh level None reset the document softly
C10_Witness ==
    /\ lastMsg.type = "RequestTreeUpdate"
    /\ lastMsg.aux = "None"
    /\ trace = <<ResetEvent("SoftReset")>>
    /\ seq = <<1, 0>>

\* --- C11
\* C11: InvokeChangeNotify invokes ChangeNotify on the node first, and then
\* RequestTreeUpdate on the same node, once and with the level ChangeNotify
\* returned, if and only if the invocation succeeded with a level other
\* than Undefined and None; otherwise no RequestTreeUpdate is issued and
\* nothing is reset.
C11_Step ==
    lastMsg'.type = "InvokeChangeNotify" =>
        LET changeNotify == lastMsg'.value.v
            requests == Positions(trace', {"RequestTreeUpdate"})
            wanted == changeNotify.ok /\ changeNotify.level \in {"ValuesOnly", "AttributesAndValues", "EntireTree"}
        IN  /\ trace'[1] = ChangeNotify(lastMsg'.origin)
            /\ Positions(trace', {"ChangeNotify"}) = {1}
            /\ (requests # {}) <=> wanted
            /\ wanted =>
                 /\ requests = {2}
                 /\ trace'[2].path = lastMsg'.origin
                 /\ trace'[2].aux = changeNotify.level
            /\ ~wanted => trace' = <<ChangeNotify(lastMsg'.origin)>> /\ UNCHANGED contents

C11_TreeUpdateOnRefresh == [][C11_Step]_vars

\* ChangeNotify on the editor of the second element answered ValuesOnly: the
\* tree update was requested with that level
C11_Witness ==
    /\ lastMsg.type = "InvokeChangeNotify"
    /\ lastMsg.origin = EditorOf(ElementRow(SeqRow, 2))
    /\ lastMsg.value.v = [ok |-> TRUE, level |-> "ValuesOnly"]
    /\ Len(trace) = 3
    /\ trace[2] = TreeUpdateRequest(lastMsg.origin, "ValuesOnly")
    /\ trace[3] = ResetEvent("SoftReset")

\* --- C12
\* the step handled OnChanged through the callback of a primitive element of
\* the sequence
PrimitiveEdited ==
    /\ lastMsg'.type = "OnChanged"
    /\ lastMsg'.origin \in DOMAIN m_onChangedCallbacks
    /\ m_onChangedCallbacks[lastMsg'.origin].kind = "primitive"
    /\ m_onChangedCallbacks[lastMsg'.origin].c = "seq"

\* C12: the callback of a primitive: a DOM value that converts to the type of
\* the primitive (a number) is written to the live value and returned in DOM
\* form; any other value leaves the live value as it was and the DOM form of
\* that value is returned.  Either way the value returned is the live value
\* after the call, and nothing else in live memory changes.
C12_Step ==
    PrimitiveEdited =>
        LET e == m_onChangedCallbacks[lastMsg'.origin].e
            newValue == lastMsg'.value
            ret == trace'[1].ret
        IN  /\ Len(seq') = Len(seq)
            /\ IF newValue.t = "int"
               THEN seq'[e] = newValue.v /\ ret = newValue
               ELSE seq'[e] = seq[e] /\ ret = IntValue(seq[e])
            /\ ret = IntValue(seq'[e])
            /\ \A i \in 1..Len(seq) : i # e => seq'[i] = seq[i]
            /\ UNCHANGED <<obj, map>>

C12_PrimitiveCallback == [][C12_Step]_vars

\* the number 1 was sent for the element, which held 0: the element holds 1
\* and 1 is what the callback returned
C12_Witness ==
    /\ lastMsg.type = "OnChanged"
    /\ lastMsg.origin = EditorOf(ElementRow(SeqRow, 1))
    /\ lastMsg.value = IntValue(1)
    /\ lastMsg.aux = "FinishedEdit"
    /\ Len(trace) = 3
    /\ trace[1].ret = IntValue(1)
    /\ seq = <<1>>

\* --- C13
\* the children of the row at base that are buttons of the given action
ButtonsOf(dom, base, action) ==
    {p \in DOMAIN dom :
        /\ Len(p) = Len(base) + 1
        /\ IsPrefix(base, p)
        /\ dom[p].name = "ContainerActionButton"
        /\ dom[p].action = action}

\* C13: the row of a container holds one AddElement and one Clear button
\* when the container is not fixed-size and ContainerCanBeModified is absent
\* or true, and neither button otherwise; AddElement is disabled exactly when
\* the Disabled attribute is the boolean true, Clear exactly when it is or
\* the container holds no element.
C13_Holds ==
    lastMsg.type = "VisitObjectBegin" =>
        LET attributes == lastMsg.value.v
            size == MemberSize(lastMsg.aux, seq, map)
            adds == ButtonsOf(contents, lastMsg.origin, "AddElement")
            clears == ButtonsOf(contents, lastMsg.origin, "Clear")
            modifiable == /\ ~attributes.isFixedSize
                          /\ attributes.canBeModified \in {"absent", "true"}
            isDisabled == attributes.disabled = "true"
        IN  /\ modifiable => Cardinality(adds) = 1 /\ Cardinality(clears) = 1
            /\ ~modifiable => adds = {} /\ clears = {}
            /\ \A p \in adds : contents[p].disabled <=> isDisabled
            /\ \A p \in clears : contents[p].disabled <=> (isDisabled \/ size = 0)

C13_ContainerButtons == C13_Holds

\* the row of an empty sequence that is not disabled: AddElement can be
\* pressed, Clear cannot
C13_Witness ==
    /\ lastMsg.type = "VisitObjectBegin"
    /\ lastMsg.aux = "seq"
    /\ seq = <<>>
    /\ lastMsg.value.v.disabled = "false"
    /\ \E p \in ButtonsOf(contents, MemberRow, "AddElement") : ~contents[p].disabled
    /\ \E p \in ButtonsOf(contents, MemberRow, "Clear") : contents[p].disabled

\* --- C14
\* the rows of the elements of the member, and the index (from 0) of the
\* element a row is for: the number of element rows before it
ElementRows(dom) ==
    {p \in DOMAIN dom :
        Len(p) = Len(MemberRow) + 1 /\ IsPrefix(MemberRow, p) /\ dom[p].name = "Row"}

\* the ContainerIndex a MoveUp or MoveDown button is asked for when it is
\* activated (lines 1369-1372) has a value
HasContainerIndex(node) == node.index # -1

IndexOfRow(dom, row) ==
    Cardinality({q \in ElementRows(dom) : q[Len(q)] < row[Len(row)]})

\* C14: the row of an element of a container that is not fixed-size and whose
\* ParentContainerCanBeModified is absent or true holds one RemoveElement
\* button; one MoveUp and one MoveDown button come before it exactly when the
\* container is a sequence of more than one element, both with the element's
\* ContainerIndex, MoveUp disabled exactly at index 0 and MoveDown exactly at
\* index size-1.  The rows of the elements of a fixed-size or non-modifiable
\* container hold none of the three.  Every MoveUp and MoveDown button has a
\* ContainerIndex, which is what is asserted when it is activated.
C14_Holds ==
    lastMsg.type \in {"VisitObjectBegin", "VisitPrimitive"} =>
        LET attributes == lastMsg.value.v
            size == MemberSize(lastMsg.aux, seq, map)
            modifiable == /\ ~attributes.isFixedSize
                          /\ attributes.parentCanBeModified \in {"absent", "true"}
            moved == lastMsg.aux = "seq" /\ size > 1
        IN  /\ Cardinality(ElementRows(contents)) = size
            /\ \A row \in ElementRows(contents) :
                 LET ups == ButtonsOf(contents, row, "MoveUp")
                     downs == ButtonsOf(contents, row, "MoveDown")
                     removes == ButtonsOf(contents, row, "RemoveElement")
                     containerIndex == IndexOfRow(contents, row)
                 IN  /\ Cardinality(removes) = IF modifiable THEN 1 ELSE 0
                     /\ Cardinality(ups) = IF modifiable /\ moved THEN 1 ELSE 0
                     /\ Cardinality(downs) = IF modifiable /\ moved THEN 1 ELSE 0
                     /\ \A p \in ups \cup downs :
                          /\ HasContainerIndex(contents[p])
                          /\ contents[p].index = containerIndex
                          /\ \A q \in removes : p[Len(p)] < q[Len(q)]
                     /\ \A p \in ups : contents[p].disabled <=> containerIndex = 0
                     /\ \A p \in downs : contents[p].disabled <=> containerIndex = size - 1

C14_ElementButtons == C14_Holds

\* the last of the two elements of a sequence: MoveUp can be pressed, MoveDown
\* cannot, both carry index 1, and RemoveElement follows them
C14_Witness ==
    /\ lastMsg.type = "VisitPrimitive"
    /\ lastMsg.aux = "seq"
    /\ Len(seq) = 2
    /\ \E row \in ElementRows(contents) :
         /\ IndexOfRow(contents, row) = 1
         /\ \E p \in ButtonsOf(contents, row, "MoveUp") :
              ~contents[p].disabled /\ contents[p].index = 1
         /\ \E p \in ButtonsOf(contents, row, "MoveDown") :
              contents[p].disabled /\ contents[p].index = 1
         /\ ButtonsOf(contents, row, "RemoveElement") # {}

\* --- C15
\* C15: the editor begun for a value is the Handler attribute when that is a
\* string, whatever EnumType is; else ComboBox when EnumType is present and
\* not null; else the empty name.
C15_Holds ==
    lastMsg.type = "VisitPrimitive" =>
        LET handler == lastMsg.value.v.handler
            enumType == lastMsg.value.v.enumType
            begun == {k \in 1..Len(trace) :
                        trace[k].op = "BeginPropertyEditor" /\ trace[k].val.t = "int"}
        IN  /\ Cardinality(begun) = MemberSize(lastMsg.aux, seq, map)
            /\ \A k \in begun :
                 /\ handler.kind = "string" => trace[k].aux = handler.name
                 /\ (handler.kind # "string" /\ enumType \notin {"absent", "null"})
                        => trace[k].aux = "ComboBox"
                 /\ (handler.kind # "string" /\ enumType \in {"absent", "null"})
                        => trace[k].aux = ""

C15_EditorPriority == C15_Holds

\* an element with the Handler "Slider" and an EnumType: Slider is begun
C15_Witness ==
    /\ lastMsg.type = "VisitPrimitive"
    /\ lastMsg.value.v.handler.kind = "string"
    /\ lastMsg.value.v.handler.name = "Slider"
    /\ lastMsg.value.v.enumType = "typeid"
    /\ Len(trace) > 1
    /\ trace[2].op = "BeginPropertyEditor"
    /\ trace[2].aux = "Slider"

\* --- C16
\* C16: a light whose squared distance to the surface, times
\* m_invAttenuationRadiusSquared, is 1 or more leaves diffuseLighting and
\* specularLighting as they were.  When the product is below 1, one diffuse and
\* one specular contribution are added, and the light intensity they are
\* computed from divides by the squared distance raised to 0.001 * 0.001 when
\* it is smaller than that.
C16_Step ==
    lastMsg'.type = "ApplySimplePointLight" =>
        LET light == lastMsg'.value.v.light
            surface == lastMsg'.value.v.surface
            posToLight == Minus(light.m_position, surface.position)
            d2 == Dot(posToLight, posToLight)
            inv == light.m_invAttenuationRadiusSquared
            used == IF d2 < MinDistanceSquared THEN MinDistanceSquared ELSE d2
            lightIntensity == LightIntensity(light.m_rgbIntensityCandelas, used,
                                             RadiusAttenuation(Frac(d2 * inv.num, inv.den)))
        IN  IF d2 * inv.num >= inv.den
            THEN /\ lightingData'.diffuseLighting = lightingData.diffuseLighting
                 /\ lightingData'.specularLighting = lightingData.specularLighting
            ELSE /\ lightingData'.diffuseLighting =
                        Append(lightingData.diffuseLighting,
                               GetDiffuseLighting(surface, lightIntensity, Normalize(posToLight)))
                 /\ lightingData'.specularLighting =
                        Append(lightingData.specularLighting,
                               GetSpecularLighting(surface, lightIntensity, Normalize(posToLight)))

C16_OnlyInRange == [][C16_Step]_vars

\* a light half a millimetre from a lit surface, within its radius: a second
\* contribution is added to each sum, computed with the squared distance of a
\* millimetre
C16_Witness ==
    /\ lastMsg.type = "ApplySimplePointLight"
    /\ Minus(lastMsg.value.v.light.m_position, lastMsg.value.v.surface.position) = <<1, 0, 0>>
    /\ lastMsg.value.v.light.m_invAttenuationRadiusSquared = Frac(1, 4)
    /\ lastMsg.value.v.light.m_rgbIntensityCandelas = <<4, 2, 0>>
    /\ Len(lightingData.diffuseLighting) = 2
    /\ Len(lightingData.specularLighting) = 2
    /\ lightingData.diffuseLighting[2].lightIntensity[1] = Frac(4 * 225, MinDistanceSquared * 256)

====
